---- MODULE Spec2Model ----
(***************************************************************************)
(* Model of the agent control core of metis: the execution loop            *)
(* (agents/loop.py), the agent step and termination policy                 *)
(* (agents/base.py) and the tool dispatcher (agents/tools/manager.py).     *)
(***************************************************************************)
EXTENDS Integers, Sequences, FiniteSets, TLC

(* ---------------------------- bounds ----------------------------------- *)
\* largest max_iterations budget explored
MaxIter == 2
\* largest number of tool calls in one model response
MaxBatch == 2
\* the wall clock is observed in 0..MaxClock
MaxClock == 1
\* the model asks for at most MaxCalls tool calls over one agent's life
MaxCalls == 2

(* ------------------------- values and types ---------------------------- *)
\* AgentStatus members
PENDING == "pending"
EXECUTING == "executing"
COMPLETED == "completed"
FAILED == "failed"

Terminal == {COMPLETED, FAILED}

\* Python's None for the optional string field error
NONE == "<None>"

\* A payload (ToolResult.data / AgentState.result).  kind "none" is None,
\* "bytes" a non-mapping value that json.dumps cannot serialise,
\* "map" a mapping; completed says whether the mapping has a completed key
\* and whether its value is truthy; reason is the value of the reason key,
\* tag stands for the rest of the content, but for the keys summary,
\* verdict and overall_severity, which fields holds ("" for a missing key).
NoFields == [summary |-> "", verdict |-> "", overall_severity |-> ""]
Payload(k, c, r, t) == [kind |-> k, completed |-> c, reason |-> r, tag |-> t,
                        fields |-> NoFields]

NoData == Payload("none", "absent", "", 0)
BytesData == Payload("bytes", "absent", "", 1)
PlainMap == Payload("map", "absent", "", 1)
DoneMap(t) == Payload("map", "truthy", "", t)
ReasonMap(r) == Payload("map", "absent", r, 0)

\* Python truthiness of a payload: None and empty containers are falsy
Truthy(d) == d.kind # "none" /\ ~(d.completed = "absent" /\ d.reason = "" /\ d.tag = 0)

\* d.get("completed") is truthy, for a mapping d
GetCompleted(d) == d.completed = "truthy"

ToolResult(s, d, e) == [success |-> s, data |-> d, error |-> e]

\* what an implementation of BaseTool.execute can hand back
ToolResults ==
    { ToolResult(TRUE, DoneMap(1), NONE),
      ToolResult(TRUE, DoneMap(2), NONE),
      ToolResult(TRUE, PlainMap, NONE),
      ToolResult(TRUE, BytesData, NONE),
      ToolResult(FALSE, DoneMap(1), "tool error") }

\* an invocation either returns a ToolResult or raises
Raised(desc) == [success |-> FALSE, data |-> Payload("raised", "absent", "", 0), error |-> desc]
IsRaised(o) == o.data.kind = "raised"
ToolOutcomes == ToolResults \cup {Raised("TypeError")}

\* registered tools; the names a model asks for in a batch
Registered == {"run_command", "post_inline_finding", "finish_review", "read_file"}
ToolNames == {"run_command", "post_inline_finding", "no_such_tool"}

Min(a, b) == IF a <= b THEN a ELSE b

(* ------------------------- state ---------------------------------------- *)
VARIABLES
    \* AgentState (base.py); last_update is written and never read
    status, iteration, tokens_used, tool_calls_made,
    result, error, messages,
    \* BaseAgent budgets and the wall clock (start_time is 0)
    budgets, now,
    \* AgentLoop.execute: position of the caller and of the loop
    pc, runCalls, lastStep,
    \* ToolManager.execute_batch seen task by task
    batch, tasks, gathered, loopOwner,
    \* one dispatch of a tool call, from execute_one into the tool
    dispatch,
    \* SandboxManager: its registry, the provider's environments and the
    \* calls in progress
    _active_sandboxes, envs, inflight,
    \* one execution of a task function
    job,
    \* ToolManager._tools and the registrations made so far
    _tools, registrations

agentVars == <<status, iteration, tokens_used, tool_calls_made,
               result, error, messages>>
loopVars == <<pc, runCalls, lastStep>>
batchVars == <<batch, tasks, gathered, loopOwner>>
sandboxVars == <<_active_sandboxes, envs, inflight>>
coreVars == <<agentVars, budgets, now, loopVars, batchVars, dispatch>>
registryVars == <<_tools, registrations>>
vars == <<coreVars, sandboxVars, job, registryVars>>

(* ------------------------- messages ------------------------------------- *)
NoResult == ToolResult(FALSE, NoData, NONE)
Msg(role, content, calls, id, res) ==
    [role |-> role, content |-> content, tool_calls |-> calls,
     tool_call_id |-> id, result |-> res]

SystemMsg == Msg("system", "system_prompt", <<>>, 0, NoResult)
UserMsg == Msg("user", "initial_user_message", <<>>, 0, NoResult)

Ids == 1..MaxBatch
\* in the agent step every registered tool behaves alike, so the model is
\* taken to ask for one registered and one unregistered name
Asked == {"run_command", "no_such_tool"}
Calls == [id : Ids, name : Asked, arguments : {"{}"}]
\* correlation ids are opaque, so a batch is taken up to renaming of its
\* ids: the calls carry 1, 2, ... in request order, or the last call repeats
\* the id of the first
CanonicalIds(tcs) ==
    /\ \A i \in 1..(Len(tcs) - 1) : tcs[i].id = i
    /\ tcs[Len(tcs)].id \in {1, Len(tcs)}
Batches == {tcs \in UNION {[1..n -> Calls] : n \in 1..MaxBatch} : CanonicalIds(tcs)}

(* ------------------------- ToolManager ---------------------------------- *)
NotFound(name) == ToolResult(FALSE, NoData, "Tool not found")

\* ToolManager.execute: the result of dispatching name when the tool's own
\* execute ends with outcome o
execute(name, o) == IF name \notin Registered THEN NotFound(name) ELSE o

\* the dict comprehension {call_id: result for ...}: a later pair with a
\* key already present replaces the value and keeps the key's position
RECURSIVE DictOf(_, _)
DictOf(pairs, acc) ==
    IF pairs = <<>> THEN acc
    ELSE LET p == Head(pairs)
             hit == {i \in 1..Len(acc) : acc[i].id = p.id}
         IN  DictOf(Tail(pairs),
                    IF hit = {} THEN Append(acc, p)
                    ELSE [i \in 1..Len(acc) |-> IF i \in hit THEN p ELSE acc[i]])

\* a lookup that ignores the key and hands back the first value
DictGetFirst(d, id) ==
    IF d = <<>> THEN [found |-> FALSE, value |-> NoResult]
    ELSE [found |-> TRUE, value |-> d[1].value]

DictGet(d, id) ==
    LET hit == {i \in 1..Len(d) : d[i].id = id}
    IN  IF hit = {} THEN [found |-> FALSE, value |-> NoResult]
        ELSE [found |-> TRUE, value |-> d[CHOOSE i \in hit : TRUE].value]

DictKeys(d) == {d[i].id : i \in 1..Len(d)}

\* ToolManager.execute_batch as a function of the calls and of how each
\* tool's execute ends; gather re-raises the first exception it sees
execute_batch(calls, outs) ==
    LET per == [i \in 1..Len(calls) |-> execute(calls[i].name, outs[i])]
        bad == {i \in 1..Len(calls) : IsRaised(per[i])}
    IN  IF bad # {}
        THEN [raised |-> TRUE, errors |-> {per[i].error : i \in bad}, results |-> <<>>]
        ELSE [raised |-> FALSE, errors |-> {},
              results |-> DictOf([i \in 1..Len(calls) |->
                                    [id |-> calls[i].id, value |-> per[i]]], <<>>)]

(* ------------------------- BaseAgent helpers ---------------------------- *)
Signals(r) == r.success /\ Truthy(r.data) /\ r.data.kind = "map" /\ GetCompleted(r.data)

\* _is_complete without the test of result.success
_is_complete_any_payload(results) ==
    \E i \in 1..Len(results) :
        LET r == results[i].value
        IN  Truthy(r.data) /\ r.data.kind = "map" /\ GetCompleted(r.data)

_is_complete(results) == \E i \in 1..Len(results) : Signals(results[i].value)

\* _extract_final_result that hands back the data of the last result
_extract_final_result_last(results) ==
    IF results = <<>> THEN Payload("map", "absent", "", 0)
    ELSE results[Len(results)].value.data

\* an extraction that takes the first successful result with data, signal
\* or not
_extract_final_result_first_success(results) ==
    LET hit == {i \in 1..Len(results) :
                    results[i].value.success /\ Truthy(results[i].value.data)}
    IN  IF hit = {} THEN Payload("map", "absent", "", 0)
        ELSE results[CHOOSE i \in hit : \A j \in hit : i <= j].value.data

_extract_final_result(results) ==
    LET hit == {i \in 1..Len(results) : Signals(results[i].value)}
    IN  IF hit = {} THEN Payload("map", "absent", "", 0)
        ELSE results[CHOOSE i \in hit : \A j \in hit : i <= j].value.data

\* json.dumps raises TypeError on a value it cannot serialise
Serialisable(r) == r.data.kind # "bytes"

AssistantCalls(calls) == Msg("assistant", NONE, calls, 0, NoResult)
\* a tool message that reports only the results of successful calls
ToolMsgHidesFailure(tc, results) ==
    LET g == DictGet(results, tc.id)
        ok == g.found /\ g.value.success
    IN  Msg("tool", IF ok THEN "result" ELSE "No result", <<>>, tc.id,
            IF ok THEN g.value ELSE NoResult)

ToolMsg(tc, results) ==
    LET g == DictGet(results, tc.id)
    IN  Msg("tool", IF g.found THEN "result" ELSE "No result", <<>>, tc.id, g.value)

\* _add_tool_results_to_messages: the messages afterwards, and whether a
\* json.dumps call raised on the way (the appends before it stay)
RECURSIVE AppendToolMsgs(_, _, _)
AppendToolMsgs(msgs, calls, results) ==
    IF calls = <<>> THEN [messages |-> msgs, raised |-> FALSE]
    ELSE IF ~Serialisable(DictGet(results, Head(calls).id).value)
         THEN [messages |-> msgs, raised |-> TRUE]
         ELSE AppendToolMsgs(Append(msgs, ToolMsg(Head(calls), results)),
                             Tail(calls), results)

\* _add_tool_results_to_messages that keeps only the initial pair of the
\* history in front of the new messages
_add_tool_results_windowed(msgs, calls, results) ==
    AppendToolMsgs(Append(<<msgs[1], msgs[2]>>, AssistantCalls(calls)), calls, results)

_add_tool_results_to_messages(msgs, calls, results) ==
    AppendToolMsgs(Append(msgs, AssistantCalls(calls)), calls, results)

(* ------------------------- the model and its tools ---------------------- *)
\* budgets a caller can configure
Budgets ==
    [max_iterations : 0..MaxIter,
     max_tokens : {1, MaxIter + 1},
     max_tool_calls : {2, MaxCalls + 1},
     max_duration_seconds : {1, MaxClock + 1}]

\* one answer of llm.chat.completions.create: it raises, or it reports a
\* usage (0: none reported), a content and tool calls, whose arguments
\* json.loads may reject
ModelRaises(desc) == [raises |-> TRUE, desc |-> desc, usage |-> 0,
                      content |-> "", tool_calls |-> <<>>, parses |-> TRUE]
ModelAnswers(u, c, tcs, ok) == [raises |-> FALSE, desc |-> "", usage |-> u,
                                content |-> c, tool_calls |-> tcs, parses |-> ok]
Responses ==
    {ModelRaises("provider timeout")}
    \cup {ModelAnswers(u, c, <<>>, TRUE) : u \in 0..1, c \in {"", "text"}}
    \cup {ModelAnswers(u, "", tcs, TRUE) : u \in 0..1, tcs \in Batches}
    \cup {ModelAnswers(u, "", tcs, FALSE) : u \in 0..1, tcs \in [{1} -> Calls] \cap Batches}

\* how the tools of a batch end; a tool that is not registered never runs
NotRun == ToolResult(FALSE, NoData, "not run")
OutcomesFor(tcs) ==
    {outs \in [1..Len(tcs) -> ToolOutcomes \cup {NotRun}] :
        \A i \in 1..Len(tcs) : (outs[i] = NotRun) <=> (tcs[i].name \notin Registered)}

(* ------------------------- BaseAgent.should_stop ------------------------ *)
Verdict(stop, set, reason) == [stop |-> stop, set |-> set, reason |-> reason]

\* should_stop with the iteration budget compared by > instead of >=
should_stop_late(st, iter, tok, ntools, elapsed, b) ==
    IF st \in Terminal THEN Verdict(TRUE, FALSE, "")
    ELSE IF iter > b.max_iterations THEN Verdict(TRUE, TRUE, "max_iterations_reached")
    ELSE IF tok >= b.max_tokens THEN Verdict(TRUE, TRUE, "max_tokens_reached")
    ELSE IF ntools >= b.max_tool_calls THEN Verdict(TRUE, TRUE, "max_tool_calls_reached")
    ELSE IF elapsed >= b.max_duration_seconds THEN Verdict(TRUE, TRUE, "max_duration_reached")
    ELSE Verdict(FALSE, FALSE, "")

\* should_stop without its early return for a terminal status
should_stop_unguarded(st, iter, tok, ntools, elapsed, b) ==
    IF iter >= b.max_iterations THEN Verdict(TRUE, TRUE, "max_iterations_reached")
    ELSE IF tok >= b.max_tokens THEN Verdict(TRUE, TRUE, "max_tokens_reached")
    ELSE IF ntools >= b.max_tool_calls THEN Verdict(TRUE, TRUE, "max_tool_calls_reached")
    ELSE IF elapsed >= b.max_duration_seconds THEN Verdict(TRUE, TRUE, "max_duration_reached")
    ELSE Verdict(st \in Terminal, FALSE, "")

\* should_stop with the tool-call budget tested before the token budget
should_stop_tools_first(st, iter, tok, ntools, elapsed, b) ==
    IF st \in Terminal THEN Verdict(TRUE, FALSE, "")
    ELSE IF iter >= b.max_iterations THEN Verdict(TRUE, TRUE, "max_iterations_reached")
    ELSE IF ntools >= b.max_tool_calls THEN Verdict(TRUE, TRUE, "max_tool_calls_reached")
    ELSE IF tok >= b.max_tokens THEN Verdict(TRUE, TRUE, "max_tokens_reached")
    ELSE IF elapsed >= b.max_duration_seconds THEN Verdict(TRUE, TRUE, "max_duration_reached")
    ELSE Verdict(FALSE, FALSE, "")

\* should_stop whose early return covers Failed and not Completed
should_stop_failed_only(st, iter, tok, ntools, elapsed, b) ==
    IF st = FAILED THEN Verdict(TRUE, FALSE, "")
    ELSE IF iter >= b.max_iterations THEN Verdict(TRUE, TRUE, "max_iterations_reached")
    ELSE IF tok >= b.max_tokens THEN Verdict(TRUE, TRUE, "max_tokens_reached")
    ELSE IF ntools >= b.max_tool_calls THEN Verdict(TRUE, TRUE, "max_tool_calls_reached")
    ELSE IF elapsed >= b.max_duration_seconds THEN Verdict(TRUE, TRUE, "max_duration_reached")
    ELSE Verdict(FALSE, FALSE, "")

\* should_stop that stops one iteration before the budget
should_stop_early(st, iter, tok, ntools, elapsed, b) ==
    IF st \in Terminal THEN Verdict(TRUE, FALSE, "")
    ELSE IF iter + 1 >= b.max_iterations THEN Verdict(TRUE, TRUE, "max_iterations_reached")
    ELSE IF tok >= b.max_tokens THEN Verdict(TRUE, TRUE, "max_tokens_reached")
    ELSE IF ntools >= b.max_tool_calls THEN Verdict(TRUE, TRUE, "max_tool_calls_reached")
    ELSE IF elapsed >= b.max_duration_seconds THEN Verdict(TRUE, TRUE, "max_duration_reached")
    ELSE Verdict(FALSE, FALSE, "")

should_stop(st, iter, tok, ntools, elapsed, b) ==
    IF st \in Terminal THEN Verdict(TRUE, FALSE, "")
    ELSE IF iter >= b.max_iterations THEN Verdict(TRUE, TRUE, "max_iterations_reached")
    ELSE IF tok >= b.max_tokens THEN Verdict(TRUE, TRUE, "max_tokens_reached")
    ELSE IF ntools >= b.max_tool_calls THEN Verdict(TRUE, TRUE, "max_tool_calls_reached")
    ELSE IF elapsed >= b.max_duration_seconds THEN Verdict(TRUE, TRUE, "max_duration_reached")
    ELSE Verdict(FALSE, FALSE, "")

\* the call self.should_stop() on the current state
ApplyShouldStop ==
    LET v == should_stop(status, iteration, tokens_used, tool_calls_made, now, budgets)
    IN  /\ status' = IF v.set THEN COMPLETED ELSE status
        /\ result' = IF v.set THEN ReasonMap(v.reason) ELSE result
        /\ lastStep' = IF v.set THEN [lastStep EXCEPT !.op = "should_stop"] ELSE lastStep
        /\ UNCHANGED <<iteration, tokens_used, tool_calls_made, error, messages>>

(* ------------------------- BaseAgent.run -------------------------------- *)
NoStep == [op |-> "none", ret |-> "none", fault |-> "none", desc |-> "",
           calls |-> <<>>, outs |-> <<>>, content |-> ""]
Step(ret, fault, desc, calls, outs) ==
    [op |-> "run", ret |-> ret, fault |-> fault, desc |-> desc,
     calls |-> calls, outs |-> outs, content |-> ""]

\* an except clause that records the error and forgets the status
RunFailsKeepsStatus(tok, ntools, msgs, fault, desc, calls, outs) ==
    [status |-> EXECUTING, tokens_used |-> tok, tool_calls_made |-> ntools,
     result |-> result, error |-> desc, messages |-> msgs,
     step |-> Step("stop", fault, desc, calls, outs)]

\* an except clause that also writes the error into the transcript
RunFailsLogsToTranscript(tok, ntools, msgs, fault, desc, calls, outs) ==
    [status |-> FAILED, tokens_used |-> tok, tool_calls_made |-> ntools,
     result |-> result, error |-> desc,
     messages |-> Append(msgs, Msg("assistant", desc, <<>>, 0, NoResult)),
     step |-> Step("stop", fault, desc, calls, outs)]

\* the except clause of run: Failed, error = str(e), return False
RunFails(tok, ntools, msgs, fault, desc, calls, outs) ==
    [status |-> FAILED, tokens_used |-> tok, tool_calls_made |-> ntools,
     result |-> result, error |-> desc, messages |-> msgs,
     step |-> Step("stop", fault, desc, calls, outs)]

RunReturns(st, tok, ntools, res, msgs, ret, calls, outs) ==
    [status |-> st, tokens_used |-> tok, tool_calls_made |-> ntools,
     result |-> res, error |-> error, messages |-> msgs,
     step |-> Step(ret, "none", "", calls, outs)]

\* a counter that counts only the calls whose tool is registered
CountCallsDispatched(made, tcs) ==
    made + Cardinality({i \in 1..Len(tcs) : tcs[i].name \in Registered})

\* self.state.tool_calls_made += len(tool_calls_data)
CountCalls(made, tcs) == made + Len(tcs)

\* an else branch that appends the assistant message whatever the content
NoToolCallsAlwaysAppends(tok, resp) ==
    [RunReturns(EXECUTING, tok, tool_calls_made, result,
                Append(messages, Msg("assistant", resp.content, <<>>, 0, NoResult)),
                "continue", <<>>, <<>>)
        EXCEPT !.step.content = resp.content]

\* the else branch of run, for an answer without tool calls: the assistant
\* message is appended when content is not empty, and run returns True
NoToolCalls(tok, resp) ==
    [RunReturns(EXECUTING, tok, tool_calls_made, result,
                IF resp.content # ""
                THEN Append(messages, Msg("assistant", resp.content, <<>>, 0, NoResult))
                ELSE messages,
                "continue", <<>>, <<>>)
        EXCEPT !.step.content = resp.content]

\* a completion branch that records the batch in the transcript before it
\* returns
CompletesAfterTranscript(tok, n, tcs, outs, results) ==
    RunReturns(COMPLETED, tok, n, _extract_final_result(results),
               _add_tool_results_to_messages(messages, tcs, results).messages,
               "stop", tcs, outs)

\* the branch of run taken when _is_complete(results): Completed, the
\* result, return False, before the batch is added to the messages
Completes(tok, n, tcs, outs, results) ==
    RunReturns(COMPLETED, tok, n, _extract_final_result(results),
               messages, "stop", tcs, outs)

\* the try block of run on the current state, for a model answer resp, the
\* way each tool's execute ends (outs) and the exception gather re-raises
\* when there is one (desc)
run(resp, outs, desc) ==
    IF resp.raises
    THEN RunFails(tokens_used, tool_calls_made, messages, "model", resp.desc, <<>>, <<>>)
    ELSE
    LET tok == tokens_used + resp.usage
        tcs == resp.tool_calls
    IN  IF ~resp.parses
        THEN RunFails(tok, tool_calls_made, messages, "parse", "JSONDecodeError", <<>>, <<>>)
        ELSE IF tcs = <<>>
        THEN NoToolCalls(tok, resp)
        ELSE
        LET b == execute_batch(tcs, outs)
            n == CountCalls(tool_calls_made, tcs)
        IN  IF b.raised
            THEN RunFails(tok, tool_calls_made, messages, "batch", desc, tcs, outs)
            ELSE IF _is_complete(b.results)
            THEN Completes(tok, n, tcs, outs, b.results)
            ELSE LET a == _add_tool_results_to_messages(messages, tcs, b.results)
                 IN  IF a.raised
                     THEN RunFails(tok, n, a.messages, "transcript", "TypeError", tcs, outs)
                     ELSE RunReturns(EXECUTING, tok, n, result, a.messages,
                                     "continue", tcs, outs)

\* the exceptions gather can re-raise for these calls and outcomes
BatchErrors(tcs, outs) ==
    IF tcs = <<>> THEN {""}
    ELSE LET b == execute_batch(tcs, outs)
         IN  IF b.raised THEN b.errors ELSE {""}

\* one call of self.run(): the preamble, then the try block; time passes
\* while the model and the tools are awaited: an answer that reports usage
\* takes one tick of the clock, one that reports none takes no time, a
\* call that raises takes either
ApplyRun ==
    \E resp \in Responses, dt \in 0..1 :
      /\ ~resp.raises => dt = resp.usage
      /\ tool_calls_made + Len(resp.tool_calls) <= MaxCalls
      /\ \E outs \in OutcomesFor(resp.tool_calls) :
        \E desc \in BatchErrors(resp.tool_calls, outs) :
          LET r == run(resp, outs, desc)
          IN  /\ iteration' = iteration + 1
              /\ now' = Min(now + dt, MaxClock)
              /\ status' = r.status
              /\ tokens_used' = r.tokens_used
              /\ tool_calls_made' = r.tool_calls_made
              /\ result' = r.result
              /\ error' = r.error
              /\ messages' = r.messages
              /\ lastStep' = r.step

(* ------------------------- one tool call and its arguments -------------- *)
\* what the model can put under a key of the arguments object: nothing, a
\* member of the enumeration of the tool's schema ("valid"), a string that
\* is a member only up to case and surrounding blanks ("cased", such as
\* " approve"), any other string ("invalid"), or a value that is not a
\* string ("wrong": a number, null)
ArgKinds == {"absent", "valid", "cased", "invalid", "wrong"}

\* verdict.strip().upper() and overall_severity.strip().lower(), for a
\* string
Normalised(k) == IF k = "cased" THEN "valid" ELSE k

\* the argument mappings explored: the parameters of finish_review and
\* read_file, and the key tool_name, which is also the name of the first
\* parameter of ToolManager.execute
Arguments ==
    [summary : {"absent", "valid"},
     verdict : ArgKinds,
     overall_severity : ArgKinds,
     file_path : {"absent", "valid", "wrong"},
     tool_name : {"absent", "valid"}]

NoArguments == [summary |-> "absent", verdict |-> "absent", overall_severity |-> "absent",
                file_path |-> "absent", tool_name |-> "absent"]

DispatchNames == {"finish_review", "read_file", "no_such_tool"}

NoDispatch == [phase |-> "idle", name |-> "", arguments |-> NoArguments,
               out |-> NoResult]

\* self.execute(call["name"], **call["arguments"]): a key tool_name is a
\* second value for the positional parameter and the call raises TypeError
Collides(a) == a.tool_name # "absent"

\* tool.execute(**kwargs): the required parameters of the tool are bound
Binds(name, a) ==
    IF name = "finish_review" THEN a.summary # "absent" /\ a.verdict # "absent"
    ELSE IF name = "read_file" THEN a.file_path # "absent"
    ELSE TRUE

\* the strings the kinds stand for: the summary "ok", the verdict
\* "APPROVE" (" approve" when cased), the severity "high" ("HIGH" when
\* cased), each after its normalisation
VerdictOf(k) == IF Normalised(k) = "valid" THEN "APPROVE" ELSE ""

\* overall_severity with a parameter that has no default value
SeverityNoDefault(k) == IF Normalised(k) = "valid" THEN "high" ELSE ""

\* overall_severity: str = "medium", then .strip().lower()
SeverityOf(k) ==
    IF k = "absent" THEN "medium"
    ELSE IF Normalised(k) = "valid" THEN "high" ELSE ""

\* data={"summary": summary, "verdict": normalized_verdict,
\*       "overall_severity": normalized_severity, "completed": True}
FinishData(a) ==
    [DoneMap(1) EXCEPT !.fields = [summary |-> "ok",
                                   verdict |-> VerdictOf(a.verdict),
                                   overall_severity |-> SeverityOf(a.overall_severity)]]

\* the body of FinishReviewTool.execute; it has no try block
FinishReviewTool_execute(a) ==
    IF a.verdict = "wrong" THEN Raised("AttributeError")
    ELSE IF Normalised(a.verdict) = "invalid"
         THEN ToolResult(FALSE, NoData, "Invalid verdict")
    ELSE IF a.overall_severity = "wrong" THEN Raised("AttributeError")
    ELSE IF Normalised(a.overall_severity) = "invalid"
         THEN ToolResult(FALSE, NoData, "Invalid overall_severity")
    ELSE ToolResult(TRUE, FinishData(a), NONE)

\* the body of ReadFileTool.execute, all of it inside try/except Exception;
\* the sandbox delivers the file or raises
ReadFileTool_execute(a, sandbox) ==
    IF a.file_path = "wrong" THEN ToolResult(FALSE, NoData, "AttributeError")
    ELSE IF sandbox = "error" THEN ToolResult(FALSE, NoData, "tool error")
    ELSE ToolResult(TRUE, PlainMap, NONE)

(* ------------------------- sandboxes ------------------------------------ *)
\* the provider hands out at most MaxEnvs environments
MaxEnvs == 2

AgentIds == {"r1", "r2"}
Callers == {1, 2}
Handles == 1..MaxEnvs
NoHandle == 0

\* a remote environment as the provider holds it: "NONE" before it is
\* created, then the state the handle shows; released once release has
\* taken its handle out of the registry
NoEnv == [state |-> "NONE", owner |-> "", released |-> FALSE]
Live(e) == e.state \in {"STARTED", "STOPPED"}

\* one call of acquire, release or stop: where it stands, its local
\* variable sandbox, what it gave back, and what it found and left
NoCall == [pc |-> "idle", op |-> "", id |-> "",
           sandbox |-> NoHandle, ret |-> NoHandle, raised |-> FALSE,
           reg0 |-> NoHandle, running0 |-> FALSE, reg1 |-> NoHandle,
           made |-> 0, asked |-> {}]

\* the branch acquire takes, creating whatever the registry holds
acquire_always_creates(reg, e, a) == "create"

\* the branch acquire takes, replacing a handle that is not running
acquire_recreates_stopped(reg, e, a) ==
    IF reg[a] # NoHandle /\ e[reg[a]].state = "STARTED" THEN "return"
    ELSE "create"

\* the branch acquire takes on the registry and the handle's state
acquire_branch(reg, e, a) ==
    IF reg[a] # NoHandle
    THEN IF e[reg[a]].state = "STARTED" THEN "return" ELSE "start"
    ELSE "create"

\* a release that leaves the registry as it is
release_keeps(reg, a) == reg

\* a release that empties the registry
release_clears(reg, a) == [b \in AgentIds |-> NoHandle]

\* self._active_sandboxes.pop(agent_id)
release_pop(reg, a) == [reg EXCEPT ![a] = NoHandle]

\* a stop that deletes the environment
stop_deletes(e) == [e EXCEPT !.state = "DELETED"]

\* sandbox.stop() when the provider carries it out
stop_remote(e) == [e EXCEPT !.state = "STOPPED"]

\* the handle the provider gives to the next environment
NextHandle == CHOOSE h \in Handles :
                 /\ envs[h].state = "NONE"
                 /\ \A g \in Handles : envs[g].state = "NONE" => h <= g

(* ------------------------- task functions ------------------------------- *)
TaskKinds == {"review", "coding", "summary"}

\* the texts str(e) gives for the exceptions a step raises
ErrTexts == {"boom", ""}

\* the row of the task as the database holds it; summary keeps its own
\* marker in pr_metadata
NoRecord == [status |-> "ABSENT", error |-> NONE, result |-> FALSE, summary_status |-> ""]
NewRecord == [status |-> "PENDING", error |-> NONE, result |-> FALSE, summary_status |-> ""]

\* review.status = "PROCESSING" / agent_run.status = "RUNNING"
Processing(kind) == IF kind = "coding" THEN "RUNNING" ELSE "PROCESSING"

\* the agent_id the task acquires its sandbox under
AcquireId(kind) ==
    IF kind = "review" THEN "id"
    ELSE IF kind = "coding" THEN "id:coder" ELSE "id:summary"

\* the agent_id the task releases in its finally clause
ReleaseId(kind) ==
    IF kind = "review" THEN "id"
    ELSE IF kind = "coding" THEN "id:coder" ELSE "id:summary"

\* the final AgentState the loop hands back: its status, whether result
\* is empty, carries only a budget reason, carries a completion payload
\* whose summary (review, summary) or branch_name (coding) is empty
\* ("partial"), or carries what the completion tool of the task gave with
\* that field set ("full"), and its error
NoFinal == [status |-> "", result |-> "none", error |-> NONE]
Finals ==
    {[status |-> COMPLETED, result |-> r, error |-> NONE] :
        r \in {"none", "reason", "partial", "full"}}
    \cup {[status |-> FAILED, result |-> "none", error |-> e] :
        e \in {NONE, "boom"}}

\* what the task makes of the final state: "publish", or the error text
\* it records
TaskVerdict(kind, f) ==
    IF f.status = COMPLETED /\ f.result # "none"
    THEN IF f.result = "full" THEN "publish"
         ELSE IF kind = "review" THEN "Agent completed without finish_review output"
         ELSE IF kind = "coding" THEN "missing_branch_name"
         ELSE "missing_summary_text"
    ELSE IF f.error # NONE THEN f.error
    ELSE IF kind = "review" THEN "Agent did not complete review"
    ELSE "agent_not_completed"

NoJob == [pc |-> "idle", kind |-> "", record |-> NoRecord, loaded |-> FALSE,
          started |-> FALSE, manager |-> FALSE, acquired |-> FALSE,
          acquires |-> <<>>, releases |-> <<>>, final |-> NoFinal,
          exc |-> NONE, outcome |-> "", posted |-> FALSE]

\* a finally clause that cleans up only when the body returned
finally_releases_on_return(j) == j.manager /\ j.outcome = "returned"

\* finally: if sandbox_manager and review_id: release
finally_releases(j) == j.manager

(* ------------------------- the tool registry ---------------------------- *)
\* the number of registrations followed
MaxRegs == 3

\* the names tool definitions carry
DefinitionNames == {"read_file", "run_command", "finish_review"}

\* a dict from names to tool instances: its keys in insertion order, and
\* the instance under each name (0 under a name that is not a key)
NoTools == [keys |-> <<>>, at |-> [n \in DefinitionNames |-> 0]]

\* an assignment that leaves the value of a key already present
DictSetKeepsFirst(d, name, tool) ==
    IF d.at[name] # 0 THEN d
    ELSE [keys |-> Append(d.keys, name), at |-> [d.at EXCEPT ![name] = tool]]

\* self._tools[name] = tool: a new key goes to the end, a key already
\* present keeps its place and takes the new value
DictSet(d, name, tool) ==
    [keys |-> IF d.at[name] # 0 THEN d.keys ELSE Append(d.keys, name),
     at |-> [d.at EXCEPT ![name] = tool]]

\* the loop of register_tools and register_tool_instances over names,
\* the k-th tool registered being the instance k
RECURSIVE RegisterAll(_, _, _)
RegisterAll(d, names, k) ==
    IF names = <<>> THEN d
    ELSE RegisterAll(DictSet(d, Head(names), k), Tail(names), k + 1)

\* get_tool: self._tools.get(name)
get_tool(name) == _tools.at[name]

\* get_all_schemas: the schema of each value, named as its definition is
get_all_schemas ==
    [i \in 1..Len(_tools.keys) |->
        [name |-> _tools.keys[i], tool |-> _tools.at[_tools.keys[i]]]]

(* ------------------------- AgentLoop.execute ---------------------------- *)
NoBatch == [calls |-> <<>>, state |-> "idle", error |-> ""]

Init ==
    /\ status = PENDING
    /\ iteration = 0
    /\ tokens_used = 0
    /\ tool_calls_made = 0
    /\ result = NoData
    /\ error = NONE
    /\ messages = <<SystemMsg, UserMsg>>
    /\ budgets \in Budgets
    /\ now = 0
    /\ pc = "idle"
    /\ runCalls = 0
    /\ lastStep = NoStep
    /\ batch = NoBatch
    /\ tasks = <<>>
    /\ gathered = <<>>
    /\ loopOwner = 0
    /\ dispatch = NoDispatch
    /\ _active_sandboxes = [a \in AgentIds |-> NoHandle]
    /\ envs = [h \in Handles |-> NoEnv]
    /\ inflight = [c \in Callers |-> NoCall]
    /\ job = NoJob
    /\ _tools = NoTools
    /\ registrations = <<>>

\* an execute whose loop runs a step before it asks should_stop
ExecuteRunsFirst ==
    /\ pc \in {"idle", "returned"}
    /\ pc' = "body"
    /\ UNCHANGED <<agentVars, budgets, dispatch, sandboxVars, job, registryVars, now, runCalls, lastStep, batchVars>>

\* a caller awaits AgentLoop(agent).execute()
Execute ==
    /\ pc \in {"idle", "returned"}
    /\ pc' = "while"
    /\ UNCHANGED <<agentVars, budgets, dispatch, sandboxVars, job, registryVars, now, runCalls, lastStep, batchVars>>

\* while not self.agent.should_stop(): the policy says stop
WhileStop ==
    /\ pc = "while"
    /\ should_stop(status, iteration, tokens_used, tool_calls_made, now, budgets).stop
    /\ ApplyShouldStop
    /\ pc' = "returned"
    /\ UNCHANGED <<budgets, dispatch, sandboxVars, job, registryVars, now, runCalls, batchVars>>

\* while not self.agent.should_stop(): the policy says continue
WhileContinue ==
    /\ pc = "while"
    /\ ~should_stop(status, iteration, tokens_used, tool_calls_made, now, budgets).stop
    /\ ApplyShouldStop
    /\ pc' = "body"
    /\ UNCHANGED <<budgets, dispatch, sandboxVars, job, registryVars, now, runCalls, batchVars>>

\* should_continue = await self.agent.run(); break when it is False
BodyRun ==
    /\ pc = "body"
    /\ ApplyRun
    /\ runCalls' = runCalls + 1
    /\ pc' = IF lastStep'.ret = "continue" THEN "while" ELSE "returned"
    /\ UNCHANGED <<budgets, dispatch, sandboxVars, job, registryVars, batchVars>>

\* an except clause of execute that only logs and records the error
HandlerKeepsStatus(desc) ==
    /\ status' = status
    /\ error' = desc
    /\ pc' = "returned"

\* the except clause of execute
Handler(desc) ==
    /\ status' = FAILED
    /\ error' = desc
    /\ pc' = "returned"

\* an exception escapes should_stop and reaches the except clause of
\* execute: the comparisons after the terminal check raise when a budget
\* or started_at is not of the expected type
WhileRaises ==
    /\ pc = "while"
    /\ status \notin Terminal
    /\ Handler("should_stop error")
    /\ lastStep' = [NoStep EXCEPT !.op = "handler", !.fault = "should_stop", !.desc = "should_stop error"]
    /\ UNCHANGED <<iteration, tokens_used, tool_calls_made, result,
                   messages, budgets, dispatch, sandboxVars, job, registryVars, now, runCalls, batchVars>>

\* an exception escapes run from its preamble (the counter, the timestamp,
\* the status and a logging call), which is outside its try block, and
\* reaches the except clause of execute
BodyRaises ==
    /\ pc = "body"
    /\ iteration' = iteration + 1
    /\ Handler("logging error")
    /\ runCalls' = runCalls + 1
    /\ lastStep' = [NoStep EXCEPT !.op = "handler", !.fault = "run", !.desc = "logging error"]
    /\ UNCHANGED <<tokens_used, tool_calls_made, result, messages, budgets, dispatch, sandboxVars, job, registryVars, now, batchVars>>

Next == Execute \/ WhileStop \/ WhileContinue \/ BodyRun \/ WhileRaises \/ BodyRaises

Spec == Init /\ [][Next]_vars

TypeOK ==
    /\ status \in {PENDING, EXECUTING, COMPLETED, FAILED}
    /\ iteration \in 0..(MaxIter + 1)
    /\ pc \in {"idle", "while", "body", "returned", "called", "checked"}

(* ------------------------- direct use of the agent ---------------------- *)
\* run() and should_stop() are public: a caller that holds the agent can
\* call them itself once a loop has returned
DirectRun ==
    /\ pc = "returned"
    /\ ApplyRun
    /\ pc' = "called"
    /\ UNCHANGED <<budgets, dispatch, sandboxVars, job, registryVars, runCalls, batchVars>>

DirectShouldStop ==
    /\ pc \in {"returned", "called"}
    /\ ApplyShouldStop
    /\ pc' = "checked"
    /\ UNCHANGED <<budgets, dispatch, sandboxVars, job, registryVars, now, runCalls, batchVars>>

NextApi ==
    \/ Execute \/ WhileStop \/ WhileContinue \/ BodyRun
    \/ DirectRun \/ DirectShouldStop

\* the direct calls are explored for one step of budget and no other limit
InitApi ==
    /\ Init
    /\ budgets.max_iterations = 1
    /\ budgets.max_tokens > MaxIter
    /\ budgets.max_tool_calls > MaxCalls
    /\ budgets.max_duration_seconds > MaxClock

ApiSpec == InitApi /\ [][NextApi]_vars

\* the loop, and direct calls of should_stop() alone
NextPolicy ==
    \/ Execute \/ WhileStop \/ WhileContinue \/ BodyRun
    \/ DirectShouldStop

\* every budget setting whose loop runs at most one step
InitPolicy == Init /\ budgets.max_iterations <= 1

PolicySpec == InitPolicy /\ [][NextPolicy]_vars

(* ------------------------- execute_batch, task by task ------------------ *)
\* RunCommandTool.execute calls sandbox.process.exec without awaiting: the
\* coroutine keeps the event loop until it returns.  The posting tools
\* await GitHub and the database.
Blocking(name) == name = "run_command"

\* results of RunCommandTool.execute: exit code 0, another exit code, or an
\* exception of the sandbox caught by the tool
RunCommandResults ==
    { ToolResult(TRUE, PlainMap, NONE),
      ToolResult(FALSE, PlainMap, NONE),
      ToolResult(FALSE, NoData, "tool error") }

\* results of PostInlineReviewFindingTool.execute
PostedResult == ToolResult(TRUE, PlainMap, NONE)
PostFailed == ToolResult(FALSE, NoData, "tool error")

\* results of a completion tool for the call at position i of the batch:
\* its payload with completed = True (the summary names the call), or the
\* failure of the validation
CompletionResults(i) ==
    { ToolResult(TRUE, DoneMap(i), NONE),
      ToolResult(FALSE, NoData, "tool error") }

BatchInputs ==
    {tcs \in UNION {[1..n -> [id : Ids, name : ToolNames \cup {"finish_review"},
                              arguments : {"{}"}]] :
                        n \in 1..MaxBatch} : CanonicalIds(tcs)}

Task(st, out) == [state |-> st, out |-> out]
Started(i) == tasks[i].state # "created"
Finished(i) == tasks[i].state \in {"returned", "raised"}
InProgress(i) == Started(i) /\ ~Finished(i)

\* a caller awaits execute_batch(tool_calls): the coroutines are created and
\* handed to gather
BatchCall ==
    /\ batch.state = "idle"
    /\ \E tcs \in BatchInputs :
         /\ batch' = [calls |-> tcs, state |-> "gathering", error |-> ""]
         /\ tasks' = [i \in 1..Len(tcs) |-> Task("created", NoResult)]
    /\ gathered' = <<>>
    /\ loopOwner' = 0
    /\ UNCHANGED <<agentVars, budgets, dispatch, sandboxVars, job, registryVars, now, loopVars>>

\* the event loop runs the tasks in the order gather created them, one at a
\* time, whenever no coroutine holds the loop
CanStart(i) ==
    /\ i \in 1..Len(tasks)
    /\ tasks[i].state = "created"
    /\ loopOwner = 0
    /\ \A j \in 1..(i - 1) : Started(j)

\* the first exception decides what gather raises
NoteRaise(desc) == IF batch.error = "" THEN [batch EXCEPT !.error = desc] ELSE batch

\* execute_one starts: self.execute(call["name"], **call["arguments"]) with
\* a name that is not registered
TaskNotFound(i) ==
    /\ CanStart(i)
    /\ batch.calls[i].name \notin Registered
    /\ tasks' = [tasks EXCEPT ![i] = Task("returned", NotFound(batch.calls[i].name))]
    /\ UNCHANGED <<agentVars, budgets, dispatch, sandboxVars, job, registryVars, now, loopVars, batch, gathered, loopOwner>>

\* the arguments do not bind to the tool's parameters: the call raises
\* TypeError before the tool's try block is entered
TaskRaises(i) ==
    /\ CanStart(i)
    /\ batch.calls[i].name \in Registered
    /\ tasks' = [tasks EXCEPT ![i] = Task("raised", Raised("TypeError"))]
    /\ batch' = NoteRaise("TypeError")
    /\ UNCHANGED <<agentVars, budgets, dispatch, sandboxVars, job, registryVars, now, loopVars, gathered, loopOwner>>

\* a tool without await enters its body and keeps the event loop
TaskBlocks(i) ==
    /\ CanStart(i)
    /\ batch.calls[i].name \in Registered
    /\ Blocking(batch.calls[i].name)
    /\ tasks' = [tasks EXCEPT ![i] = Task("running", NoResult)]
    /\ loopOwner' = i
    /\ UNCHANGED <<agentVars, budgets, dispatch, sandboxVars, job, registryVars, now, loopVars, batch, gathered>>

\* the blocking sandbox call is over: the tool returns its ToolResult
TaskUnblocks(i) ==
    /\ i \in 1..Len(tasks)
    /\ tasks[i].state = "running"
    /\ \E r \in RunCommandResults :
         tasks' = [tasks EXCEPT ![i] = Task("returned", r)]
    /\ loopOwner' = 0
    /\ UNCHANGED <<agentVars, budgets, dispatch, sandboxVars, job, registryVars, now, loopVars, batch, gathered>>

\* a completion tool has no await: its coroutine runs to its return as soon
\* as the event loop starts it
TaskCompletes(i) ==
    /\ CanStart(i)
    /\ batch.calls[i].name = "finish_review"
    /\ \E r \in CompletionResults(i) :
         tasks' = [tasks EXCEPT ![i] = Task("returned", r)]
    /\ UNCHANGED <<agentVars, budgets, dispatch, sandboxVars, job, registryVars, now, loopVars, batch, gathered, loopOwner>>

\* a posting tool runs up to await github_service.create_pr_inline_comment,
\* or fails before it (an exception of the normalisation, caught)
TaskAwaits(i) ==
    /\ CanStart(i)
    /\ batch.calls[i].name = "post_inline_finding"
    /\ \/ tasks' = [tasks EXCEPT ![i] = Task("await_github", NoResult)]
       \/ tasks' = [tasks EXCEPT ![i] = Task("returned", PostFailed)]
    /\ UNCHANGED <<agentVars, budgets, dispatch, sandboxVars, job, registryVars, now, loopVars, batch, gathered, loopOwner>>

\* an awaited call is over and the coroutine is resumed
TaskResumes(i) ==
    /\ i \in 1..Len(tasks)
    /\ loopOwner = 0
    /\ \/ /\ tasks[i].state = "await_github"
          /\ \/ tasks' = [tasks EXCEPT ![i] = Task("await_commit", NoResult)]
             \/ tasks' = [tasks EXCEPT ![i] = Task("returned", PostFailed)]
       \/ /\ tasks[i].state = "await_commit"
          /\ \/ tasks' = [tasks EXCEPT ![i] = Task("returned", PostedResult)]
             \/ tasks' = [tasks EXCEPT ![i] = Task("returned", PostFailed)]
    /\ UNCHANGED <<agentVars, budgets, dispatch, sandboxVars, job, registryVars, now, loopVars, batch, gathered, loopOwner>>

\* completed = await asyncio.gather(*tasks) with every task returned: the
\* dict comprehension over the pairs in request order
GatherReturns ==
    /\ batch.state = "gathering"
    /\ loopOwner = 0
    /\ \A i \in 1..Len(tasks) : tasks[i].state = "returned"
    /\ gathered' = DictOf([i \in 1..Len(tasks) |->
                             [id |-> batch.calls[i].id, value |-> tasks[i].out]], <<>>)
    /\ batch' = [batch EXCEPT !.state = "returned"]
    /\ UNCHANGED <<agentVars, budgets, dispatch, sandboxVars, job, registryVars, now, loopVars, tasks, loopOwner>>

\* asyncio.gather without return_exceptions: the first exception of a task
\* is raised to the caller of execute_batch; the other tasks are not
\* cancelled and their results are dropped
GatherRaises ==
    /\ batch.state = "gathering"
    /\ loopOwner = 0
    /\ batch.error # ""
    /\ \A i \in 1..Len(tasks) : Started(i)
    /\ batch' = [batch EXCEPT !.state = "raised"]
    /\ UNCHANGED <<agentVars, budgets, dispatch, sandboxVars, job, registryVars, now, loopVars, tasks, gathered, loopOwner>>

NextBatch ==
    \/ BatchCall
    \/ \E i \in 1..MaxBatch : TaskNotFound(i)
    \/ \E i \in 1..MaxBatch : TaskRaises(i)
    \/ \E i \in 1..MaxBatch : TaskBlocks(i)
    \/ \E i \in 1..MaxBatch : TaskUnblocks(i)
    \/ \E i \in 1..MaxBatch : TaskCompletes(i)
    \/ \E i \in 1..MaxBatch : TaskAwaits(i)
    \/ \E i \in 1..MaxBatch : TaskResumes(i)
    \/ GatherReturns
    \/ GatherRaises

InitBatch ==
    /\ Init
    /\ budgets.max_iterations = MaxIter
    /\ budgets.max_tokens > MaxIter
    /\ budgets.max_tool_calls > MaxCalls
    /\ budgets.max_duration_seconds > MaxClock

BatchSpec == InitBatch /\ [][NextBatch]_vars

(* ------------------------- one dispatch, step by step ------------------- *)
\* execute_one evaluates self.execute(call["name"], **call["arguments"])
DispatchCall ==
    /\ dispatch.phase = "idle"
    /\ \E name \in DispatchNames, a \in Arguments :
         dispatch' = [phase |-> "calling", name |-> name, arguments |-> a,
                      out |-> NoResult]
    /\ UNCHANGED <<agentVars, budgets, now, loopVars, batchVars, sandboxVars, job, registryVars>>

\* the arguments are bound to the parameters of ToolManager.execute
ExecuteBinds ==
    /\ dispatch.phase = "calling"
    /\ dispatch' = IF Collides(dispatch.arguments)
                   THEN [dispatch EXCEPT !.phase = "raised", !.out = Raised("TypeError")]
                   ELSE [dispatch EXCEPT !.phase = "execute"]
    /\ UNCHANGED <<agentVars, budgets, now, loopVars, batchVars, sandboxVars, job, registryVars>>

\* tool = self.get_tool(tool_name); if not tool: return the failure result
ExecuteNotFound ==
    /\ dispatch.phase = "execute"
    /\ dispatch.name \notin Registered
    /\ dispatch' = [dispatch EXCEPT !.phase = "returned",
                                    !.out = execute(dispatch.name, NotRun)]
    /\ UNCHANGED <<agentVars, budgets, now, loopVars, batchVars, sandboxVars, job, registryVars>>

\* return await tool.execute(**kwargs): the arguments are bound to the
\* parameters of the tool, outside any try block
ToolBinds ==
    /\ dispatch.phase = "execute"
    /\ dispatch.name \in Registered
    /\ dispatch' = IF Binds(dispatch.name, dispatch.arguments)
                   THEN [dispatch EXCEPT !.phase = "body"]
                   ELSE [dispatch EXCEPT !.phase = "raised", !.out = Raised("TypeError")]
    /\ UNCHANGED <<agentVars, budgets, now, loopVars, batchVars, sandboxVars, job, registryVars>>

\* the body of the tool runs to its end
ToolBody ==
    /\ dispatch.phase = "body"
    /\ \E sandbox \in {"ok", "error"} :
         LET o == IF dispatch.name = "finish_review"
                  THEN FinishReviewTool_execute(dispatch.arguments)
                  ELSE ReadFileTool_execute(dispatch.arguments, sandbox)
         IN  dispatch' = [dispatch EXCEPT
                            !.phase = IF IsRaised(o) THEN "raised" ELSE "returned",
                            !.out = execute(dispatch.name, o)]
    /\ UNCHANGED <<agentVars, budgets, now, loopVars, batchVars, sandboxVars, job, registryVars>>

NextDispatch ==
    DispatchCall \/ ExecuteBinds \/ ExecuteNotFound \/ ToolBinds \/ ToolBody

DispatchSpec == InitBatch /\ [][NextDispatch]_vars

(* ------------------------- SandboxManager, statement by statement ------- *)
\* a call for agent id a is in progress
Busy(a) == \E c \in Callers :
              inflight[c].pc \notin {"idle", "done"} /\ inflight[c].id = a

Idle(c) == inflight[c].pc \in {"idle", "done"}

\* acquire(a) is called: the registry is looked up and the handle's state
\* read
AcquireCall(c, a) ==
    /\ Idle(c)
    /\ LET h == _active_sandboxes[a]
           br == acquire_branch(_active_sandboxes, envs, a)
           call == [NoCall EXCEPT !.op = "acquire", !.id = a,
                                  !.reg0 = h, !.reg1 = h,
                                  !.running0 = (h # NoHandle /\ envs[h].state = "STARTED")]
       IN  inflight' = [inflight EXCEPT ![c] =
               IF br = "return"
               THEN [call EXCEPT !.pc = "done", !.sandbox = h, !.ret = h]
               ELSE IF br = "start"
               THEN [call EXCEPT !.pc = "start", !.sandbox = h]
               ELSE [call EXCEPT !.pc = "create"]]
    /\ UNCHANGED <<_active_sandboxes, envs, coreVars, job, registryVars>>

\* an acquire for an id that no call in progress works on
Acquire(c) == \E a \in AgentIds : ~Busy(a) /\ AcquireCall(c, a)

\* an acquire for any id, also one another acquire is working on
AcquireOverlapping(c) == \E a \in AgentIds : AcquireCall(c, a)

\* sandbox.start(); return sandbox: the provider starts it or raises
AcquireStart(c) ==
    /\ inflight[c].pc = "start"
    /\ \E ok \in BOOLEAN :
         LET h == inflight[c].sandbox
         IN  /\ envs' = IF ok THEN [envs EXCEPT ![h].state = "STARTED"] ELSE envs
             /\ inflight' = [inflight EXCEPT ![c].pc = "done",
                                ![c].asked = @ \cup {"start"},
                                ![c].raised = ~ok,
                                ![c].ret = IF ok THEN h ELSE NoHandle,
                                ![c].reg1 = _active_sandboxes[inflight[c].id]]
    /\ UNCHANGED <<_active_sandboxes, coreVars, job, registryVars>>

\* sandbox = self._client.create(params, timeout=0): the provider creates
\* a running environment or raises; a repository_url, when the caller
\* passed one, is cloned next
ClientCreate(c) ==
    /\ inflight[c].pc = "create"
    /\ \E ok \in BOOLEAN, repository_url \in BOOLEAN :
         /\ ok => \E h \in Handles : envs[h].state = "NONE"
         /\ IF ok
            THEN /\ envs' = [envs EXCEPT ![NextHandle] =
                               [state |-> "STARTED", owner |-> inflight[c].id,
                                released |-> FALSE]]
                 /\ inflight' = [inflight EXCEPT
                        ![c].pc = IF repository_url THEN "clone" ELSE "register",
                        ![c].sandbox = NextHandle,
                        ![c].made = @ + 1,
                        ![c].asked = @ \cup {"create"}]
            ELSE /\ envs' = envs
                 /\ inflight' = [inflight EXCEPT ![c].pc = "done",
                                    ![c].asked = @ \cup {"create"},
                                    ![c].raised = TRUE]
    /\ UNCHANGED <<_active_sandboxes, coreVars, job, registryVars>>

\* if repository_url: self._clone_repository(...): sandbox.git.clone
\* succeeds or raises
ClientClone(c) ==
    /\ inflight[c].pc = "clone"
    /\ \E ok \in BOOLEAN :
         inflight' = [inflight EXCEPT
                        ![c].pc = IF ok THEN "register" ELSE "done",
                        ![c].asked = @ \cup {"clone"},
                        ![c].raised = ~ok]
    /\ UNCHANGED <<_active_sandboxes, envs, coreVars, job, registryVars>>

\* self._active_sandboxes[agent_id] = sandbox; return sandbox
AcquireRegister(c) ==
    /\ inflight[c].pc = "register"
    /\ _active_sandboxes' = [_active_sandboxes EXCEPT
                               ![inflight[c].id] = inflight[c].sandbox]
    /\ inflight' = [inflight EXCEPT ![c].pc = "done",
                                    ![c].ret = inflight[c].sandbox,
                                    ![c].reg1 = inflight[c].sandbox]
    /\ UNCHANGED <<envs, coreVars, job, registryVars>>

\* release is called: a registered handle is popped from the registry
Release(c) ==
    /\ Idle(c)
    /\ \E a \in AgentIds :
         /\ ~Busy(a)
         /\ LET h == _active_sandboxes[a]
                call == [NoCall EXCEPT !.op = "release", !.id = a, !.reg0 = h]
            IN  IF h # NoHandle
                THEN /\ _active_sandboxes' = release_pop(_active_sandboxes, a)
                     /\ envs' = [envs EXCEPT ![h].released = TRUE]
                     /\ inflight' = [inflight EXCEPT ![c] =
                            [call EXCEPT !.pc = "delete", !.sandbox = h]]
                ELSE /\ inflight' = [inflight EXCEPT ![c] = [call EXCEPT !.pc = "done"]]
                     /\ UNCHANGED <<_active_sandboxes, envs>>
    /\ UNCHANGED <<coreVars, job, registryVars>>

\* try: sandbox.delete() except Exception: print(...)
ReleaseDelete(c) ==
    /\ inflight[c].pc = "delete"
    /\ \E ok \in BOOLEAN :
         envs' = IF ok THEN [envs EXCEPT ![inflight[c].sandbox].state = "DELETED"]
                 ELSE envs
    /\ inflight' = [inflight EXCEPT ![c].pc = "done",
                                    ![c].asked = @ \cup {"delete"},
                                    ![c].reg1 = _active_sandboxes[inflight[c].id]]
    /\ UNCHANGED <<_active_sandboxes, coreVars, job, registryVars>>

\* stop is called: the registry is looked up
Stop(c) ==
    /\ Idle(c)
    /\ \E a \in AgentIds :
         /\ ~Busy(a)
         /\ LET h == _active_sandboxes[a]
                call == [NoCall EXCEPT !.op = "stop", !.id = a, !.reg0 = h,
                                       !.reg1 = h]
            IN  inflight' = [inflight EXCEPT ![c] =
                    IF h # NoHandle
                    THEN [call EXCEPT !.pc = "stop", !.sandbox = h]
                    ELSE [call EXCEPT !.pc = "done"]]
    /\ UNCHANGED <<_active_sandboxes, envs, coreVars, job, registryVars>>

\* try: sandbox.stop() except Exception: print(...)
StopRemote(c) ==
    /\ inflight[c].pc = "stop"
    /\ \E ok \in BOOLEAN :
         envs' = IF ok THEN [envs EXCEPT ![inflight[c].sandbox] = stop_remote(@)]
                 ELSE envs
    /\ inflight' = [inflight EXCEPT ![c].pc = "done",
                                    ![c].asked = @ \cup {"stop"},
                                    ![c].reg1 = _active_sandboxes[inflight[c].id]]
    /\ UNCHANGED <<_active_sandboxes, coreVars, job, registryVars>>

\* auto_stop_interval=15: the provider stops an environment left inactive
AutoStop ==
    /\ \E h \in Handles :
         /\ envs[h].state = "STARTED"
         /\ envs' = [envs EXCEPT ![h].state = "STOPPED"]
    /\ UNCHANGED <<_active_sandboxes, inflight, coreVars, job, registryVars>>

\* one caller at a time: every call returns before the next is made
NextSandbox ==
    \/ Acquire(1)
    \/ AcquireStart(1)
    \/ ClientCreate(1)
    \/ ClientClone(1)
    \/ AcquireRegister(1)
    \/ Release(1)
    \/ ReleaseDelete(1)
    \/ Stop(1)
    \/ StopRemote(1)
    \/ AutoStop

SandboxSpec == InitBatch /\ [][NextSandbox]_vars

\* two callers whose acquire and release calls interleave statement by
\* statement, never two of them for one agent id at a time
NextConcurrent ==
    \/ \E c \in Callers : Acquire(c)
    \/ \E c \in Callers : AcquireStart(c)
    \/ \E c \in Callers : ClientCreate(c)
    \/ \E c \in Callers : ClientClone(c)
    \/ \E c \in Callers : AcquireRegister(c)
    \/ \E c \in Callers : Release(c)
    \/ \E c \in Callers : ReleaseDelete(c)
    \/ AutoStop

ConcurrentSpec == InitBatch /\ [][NextConcurrent]_vars

\* two callers whose acquire calls overlap freely, with no release
NextOverlap ==
    \/ \E c \in Callers : AcquireOverlapping(c)
    \/ \E c \in Callers : AcquireStart(c)
    \/ \E c \in Callers : ClientCreate(c)
    \/ \E c \in Callers : ClientClone(c)
    \/ \E c \in Callers : AcquireRegister(c)
    \/ AutoStop

OverlapSpec == InitBatch /\ [][NextOverlap]_vars

(* ------------------------- one task execution --------------------------- *)
\* a step of the try block raises: control goes to the except clause
Raise(desc) == [job EXCEPT !.pc = "rollback", !.exc = desc]

\* a step of the try block returns: control goes to the finally clause
Return == [job EXCEPT !.pc = "finally", !.outcome = "returned"]

\* the task is delivered to a worker; its row exists or not
JobStart ==
    /\ job.pc = "idle"
    /\ \E kind \in TaskKinds, r \in {NoRecord, NewRecord} :
         job' = [NoJob EXCEPT !.pc = "load", !.kind = kind, !.record = r]
    /\ UNCHANGED <<coreVars, sandboxVars, registryVars>>

\* the row is loaded; a missing row ends the task
JobLoad ==
    /\ job.pc = "load"
    /\ \/ \E desc \in ErrTexts : job' = Raise(desc)
       \/ /\ job.record = NoRecord
          /\ job' = Return
       \/ /\ job.record # NoRecord
          /\ job' = [job EXCEPT !.pc = "install", !.loaded = TRUE]
    /\ UNCHANGED <<coreVars, sandboxVars, registryVars>>

\* the installation is loaded; without one review and coding record a
\* failure and summary returns
JobInstall ==
    /\ job.pc = "install"
    /\ \/ \E desc \in ErrTexts : job' = Raise(desc)
       \/ job' = [job EXCEPT !.pc = IF job.kind = "summary" THEN "fetch" ELSE "mark"]
       \/ /\ job.kind = "summary"
          /\ job' = Return
       \/ /\ job.kind # "summary"
          /\ job' = [Return EXCEPT !.record.status = "FAILED",
                                   !.record.error = "installation not found"]
    /\ UNCHANGED <<coreVars, sandboxVars, registryVars>>

\* the row is marked as being processed and committed
JobMark ==
    /\ job.pc = "mark"
    /\ \/ \E desc \in ErrTexts : job' = Raise(desc)
       \/ job' = [job EXCEPT !.pc = "fetch", !.started = TRUE,
                             !.record.status = Processing(job.kind),
                             !.record.error = NONE]
    /\ UNCHANGED <<coreVars, sandboxVars, registryVars>>

\* the pull request or issue and the installation token are fetched
JobFetch ==
    /\ job.pc = "fetch"
    /\ \/ \E desc \in ErrTexts : job' = Raise(desc)
       \/ job' = [job EXCEPT !.pc = "manager"]
    /\ UNCHANGED <<coreVars, sandboxVars, registryVars>>

\* sandbox_manager = SandboxManager(...)
JobManager ==
    /\ job.pc = "manager"
    /\ \/ \E desc \in ErrTexts : job' = Raise(desc)
       \/ job' = [job EXCEPT !.pc = "acquire", !.manager = TRUE]
    /\ UNCHANGED <<coreVars, sandboxVars, registryVars>>

\* sandbox = sandbox_manager.acquire(agent_id=..., ...)
JobAcquire ==
    /\ job.pc = "acquire"
    /\ LET called == [job EXCEPT !.acquires = Append(@, AcquireId(job.kind))]
       IN  \/ \E desc \in ErrTexts :
                job' = [called EXCEPT !.pc = "rollback", !.exc = desc]
           \/ job' = [called EXCEPT !.pc = "prepare", !.acquired = TRUE]
    /\ UNCHANGED <<coreVars, sandboxVars, registryVars>>

\* the tools, the model client and the agent are built
JobPrepare ==
    /\ job.pc = "prepare"
    /\ \/ \E desc \in ErrTexts : job' = Raise(desc)
       \/ job' = [job EXCEPT !.pc = "loop"]
    /\ UNCHANGED <<coreVars, sandboxVars, registryVars>>

\* final_state = await AgentLoop(agent).execute()
JobLoop ==
    /\ job.pc = "loop"
    /\ \E f \in Finals : job' = [job EXCEPT !.pc = "post", !.final = f]
    /\ UNCHANGED <<coreVars, sandboxVars, registryVars>>

\* the final state is judged; a failure is recorded and committed
JobPost ==
    /\ job.pc = "post"
    /\ LET v == TaskVerdict(job.kind, job.final)
       IN  IF v = "publish"
           THEN job' = [job EXCEPT !.pc = "publish"]
           ELSE \/ \E desc \in ErrTexts : job' = Raise(desc)
                \/ /\ job.kind # "summary"
                   /\ job' = [Return EXCEPT !.record.status = "FAILED",
                                            !.record.error = v]
                \/ /\ job.kind = "summary"
                   /\ job' = [Return EXCEPT !.record.summary_status = "FAILED"]
    /\ UNCHANGED <<coreVars, sandboxVars, registryVars>>

\* the outcome is published on GitHub (create_pr_review,
\* create_pull_request, update_pr_description), then recorded and
\* committed; the GitHub call raises, or the steps after it do
JobPublish ==
    /\ job.pc = "publish"
    /\ \/ \E desc \in ErrTexts : job' = Raise(desc)
       \/ \E desc \in ErrTexts : job' = [Raise(desc) EXCEPT !.posted = TRUE]
       \/ /\ job.kind # "summary"
          /\ job' = [Return EXCEPT !.posted = TRUE,
                                   !.record.status = "COMPLETED",
                                   !.record.result = TRUE]
       \/ /\ job.kind = "summary"
          /\ job' = [Return EXCEPT !.posted = TRUE,
                                   !.record.summary_status = "COMPLETED"]
    /\ UNCHANGED <<coreVars, sandboxVars, registryVars>>

\* except Exception as e: await db.rollback(), which may raise itself
JobRollback ==
    /\ job.pc = "rollback"
    /\ \/ job' = [job EXCEPT !.pc = "finally", !.outcome = "raised"]
       \/ /\ ~job.loaded
          /\ job' = [job EXCEPT !.pc = "finally", !.outcome = "raised"]
       \/ /\ job.loaded
          /\ job' = [job EXCEPT !.pc = "fail"]
    /\ UNCHANGED <<coreVars, sandboxVars, registryVars>>

\* if the row was loaded: status FAILED, error str(e), commit (which may
\* raise); then raise
JobFail ==
    /\ job.pc = "fail"
    /\ \/ job' = [job EXCEPT !.pc = "finally", !.outcome = "raised"]
       \/ /\ job.kind # "summary"
          /\ job' = [job EXCEPT !.pc = "finally", !.outcome = "raised",
                                !.record.status = "FAILED",
                                !.record.error = job.exc]
       \/ /\ job.kind = "summary"
          /\ job' = [job EXCEPT !.pc = "finally", !.outcome = "raised",
                                !.record.summary_status = "FAILED"]
    /\ UNCHANGED <<coreVars, sandboxVars, registryVars>>

\* finally: release the sandbox when a manager was built, dispose the engine
JobFinally ==
    /\ job.pc = "finally"
    /\ job' = [job EXCEPT !.pc = "exit",
                  !.releases = IF finally_releases(job)
                               THEN Append(@, ReleaseId(job.kind)) ELSE @]
    /\ UNCHANGED <<coreVars, sandboxVars, registryVars>>

NextJob ==
    \/ JobStart \/ JobLoad \/ JobInstall \/ JobMark \/ JobFetch \/ JobManager
    \/ JobAcquire \/ JobPrepare \/ JobLoop \/ JobPost \/ JobPublish
    \/ JobRollback \/ JobFail \/ JobFinally

JobSpec == InitBatch /\ [][NextJob]_vars

(* ------------------------- a review agent's steps ----------------------- *)
\* the one call of a model answer that asks for finish_review
FinishCall == [id |-> 1, name |-> "finish_review", arguments |-> "{}"]

\* how execute_one ends for a call of finish_review with arguments a
FinishOutcome(a) ==
    IF Collides(a) \/ ~Binds("finish_review", a) THEN Raised("TypeError")
    ELSE FinishReviewTool_execute(a)

\* one call of self.run() in which the model asks for finish_review alone
ReviewRun ==
    /\ pc = "body"
    /\ tool_calls_made + 1 <= MaxCalls
    /\ \E a \in Arguments, u \in 0..1 :
         LET resp == ModelAnswers(u, "", <<FinishCall>>, TRUE)
             o == FinishOutcome(a)
             outs == <<o>>
         IN  \E desc \in BatchErrors(resp.tool_calls, outs) :
               LET r == run(resp, outs, desc)
               IN  /\ a.file_path = "absent"
                   /\ dispatch' = [phase |-> IF IsRaised(o) THEN "raised" ELSE "returned",
                                   name |-> "finish_review", arguments |-> a,
                                   out |-> execute("finish_review", o)]
                   /\ iteration' = iteration + 1
                   /\ now' = Min(now + u, MaxClock)
                   /\ status' = r.status
                   /\ tokens_used' = r.tokens_used
                   /\ tool_calls_made' = r.tool_calls_made
                   /\ result' = r.result
                   /\ error' = r.error
                   /\ messages' = r.messages
                   /\ lastStep' = r.step
                   /\ runCalls' = runCalls + 1
                   /\ pc' = IF r.step.ret = "continue" THEN "while" ELSE "returned"
    /\ UNCHANGED <<budgets, sandboxVars, job, registryVars, batchVars>>

NextReview == Execute \/ WhileStop \/ WhileContinue \/ ReviewRun

ReviewSpec == Init /\ [][NextReview]_vars

(* ------------------------- registering tools ---------------------------- *)
\* the lists of tools one call registers
ToolLists == UNION {[1..n -> DefinitionNames] : n \in 1..2}

Register(how, names) ==
    /\ Len(registrations) + Len(names) <= MaxRegs
    /\ _tools' = RegisterAll(_tools, names, Len(registrations) + 1)
    /\ registrations' = registrations \o
          [i \in 1..Len(names) |-> [name |-> names[i], how |-> how,
                                    tool |-> Len(registrations) + i]]
    /\ UNCHANGED <<coreVars, sandboxVars, job>>

\* register_tools(tool_classes): each class is instantiated and stored
\* under the name of its definition
RegisterTools == \E names \in ToolLists : Register("class", names)

\* register_tool_instances(tools)
RegisterToolInstances == \E names \in ToolLists : Register("instance", names)

NextRegistry == RegisterTools \/ RegisterToolInstances

RegistrySpec == InitBatch /\ [][NextRegistry]_vars

(* ------------------------- properties ----------------------------------- *)
\* what each call of the last step's batch came back with
StepResults == [i \in 1..Len(lastStep.calls) |->
                    execute(lastStep.calls[i].name, lastStep.outs[i])]
StepSignals == {i \in 1..Len(lastStep.calls) :
                    ~IsRaised(StepResults[i]) /\ Signals(StepResults[i])}
DistinctIds(tcs) == \A i, j \in 1..Len(tcs) : tcs[i].id = tcs[j].id => i = j

\* C1: whatever the budgets and the model do, one execute() calls run() at
\* most max_iterations times, and the loop cannot go on for ever: every
\* step of the loop returns, or calls run() once more, or is the evaluation
\* of should_stop that precedes the next run().
LoopProgress ==
    pc \in {"while", "body"} =>
        \/ pc' = "returned"
        \/ pc = "while" /\ pc' = "body" /\ runCalls' = runCalls
        \/ pc = "body" /\ pc' = "while" /\ runCalls' = runCalls + 1

C1_TerminatesWithinMaxIterations ==
    /\ [](runCalls <= budgets.max_iterations)
    /\ [][LoopProgress]_vars

C1_Witness ==
    /\ pc = "returned"
    /\ budgets.max_iterations = MaxIter
    /\ runCalls = MaxIter
    /\ status = COMPLETED
    /\ result = ReasonMap("max_iterations_reached")

\* C2: execute always returns, with status Completed or Failed; an
\* exception that escapes run() or should_stop() ends as Failed with the
\* exception's description in error.
C2_ExecuteReturnsTerminal ==
    /\ pc = "returned" => status \in Terminal
    /\ lastStep.op = "handler" => status = FAILED /\ error = lastStep.desc

C2_Witness ==
    /\ pc = "returned"
    /\ lastStep.op = "handler"
    /\ lastStep.fault = "run"
    /\ status = FAILED

\* C3: an exception of the model call, of the parsing, of the batch dispatch
\* or of the transcript update stays inside run(): the state is Failed, error
\* is the exception's description and run returns stop.
C3_RunCatches ==
    (lastStep.op = "run" /\ lastStep.fault # "none")
        => /\ lastStep.ret = "stop"
           /\ status = FAILED
           /\ error = lastStep.desc

C3_Witness ==
    /\ lastStep.op = "run"
    /\ lastStep.fault = "transcript"
    /\ status = FAILED
    /\ pc = "returned"

\* C4: once status is Completed or Failed, no call of run(), should_stop() or
\* execute changes status, iteration, tokens_used or tool_calls_made.
C4_TerminalAbsorbing ==
    [][(status \in Terminal) =>
         (UNCHANGED <<status, iteration, tokens_used, tool_calls_made>>)]_vars

\* C5: Completed has a result and no error, Failed has an error and no
\* result, Pending and Executing have neither.
C5_ResultXorError ==
    /\ status = COMPLETED => result # NoData /\ error = NONE
    /\ status = FAILED => error # NONE /\ result = NoData
    /\ status \in {PENDING, EXECUTING} => result = NoData /\ error = NONE

C5_Witness ==
    /\ status = FAILED
    /\ error = "provider timeout"
    /\ iteration = MaxIter
    /\ pc = "returned"

\* C6: when exactly one call of a batch comes back with a completion signal,
\* the step ends Completed with that payload as result and returns stop,
\* however the other calls of the batch end.
C6_SignalCompletes ==
    (/\ lastStep.op = "run"
     /\ DistinctIds(lastStep.calls)
     /\ Cardinality(StepSignals) = 1)
        => /\ status = COMPLETED
           /\ \A i \in StepSignals : result = StepResults[i].data
           /\ lastStep.ret = "stop"

\* C7: a step ends Completed only if some call of its batch came back with
\* success and a mapping whose completed key is truthy.
C7_CompletedOnlyBySignal ==
    (lastStep.op = "run" /\ status = COMPLETED) => StepSignals # {}

C7_Witness ==
    /\ lastStep.op = "run"
    /\ lastStep.ret = "continue"
    /\ status = EXECUTING
    /\ \E i \in 1..Len(lastStep.calls) :
         StepResults[i] = ToolResult(FALSE, DoneMap(1), "tool error")
    /\ \E i \in 1..Len(lastStep.calls) :
         StepResults[i] = ToolResult(TRUE, PlainMap, NONE)

\* C8: a batch of N calls with distinct ids always ends with a mapping of
\* exactly N entries keyed by the N ids, also when tools fail or raise.
C8_EveryIdKeyed ==
    (batch.state \in {"returned", "raised"} /\ DistinctIds(batch.calls))
        => /\ batch.state = "returned"
           /\ Len(gathered) = Len(batch.calls)
           /\ DictKeys(gathered) = {batch.calls[i].id : i \in 1..Len(batch.calls)}

\* C9: a tool that raises does not make execute_batch raise: its entry is a
\* failure result and each sibling's entry is what the sibling returned.
C9_RaiseContained ==
    (\E i \in 1..Len(tasks) : tasks[i].state = "raised")
        => /\ batch.state # "raised"
           /\ batch.state = "returned" =>
                \A j \in 1..Len(tasks) :
                    /\ DictGet(gathered, batch.calls[j].id).found
                    /\ tasks[j].state = "raised" =>
                         ~DictGet(gathered, batch.calls[j].id).value.success
                    /\ (tasks[j].state = "returned" /\ DistinctIds(batch.calls)) =>
                         DictGet(gathered, batch.calls[j].id).value = tasks[j].out

\* C10: while an invocation of a batch is in progress, an invocation of the
\* same batch that has not started does not have to wait for it.
C10_NoWaitingForSibling ==
    \A i, j \in 1..Len(tasks) :
        (InProgress(i) /\ tasks[j].state = "created"
            /\ \A k \in 1..(j - 1) : Started(k))
            => CanStart(j)

\* C11: dispatching a name that is not registered ends, for every argument
\* mapping, with a returned failure result whose error says the tool was
\* not found; it never ends with an exception.
C11_NotFoundNeverRaises ==
    (dispatch.phase \in {"returned", "raised"} /\ dispatch.name \notin Registered)
        => /\ dispatch.phase = "returned"
           /\ ~dispatch.out.success
           /\ dispatch.out.error = "Tool not found"

\* C12: a registered tool, given any argument mapping that reaches it, ends
\* by returning a ToolResult; it never ends with an exception.
C12_ToolsNeverRaise ==
    (/\ dispatch.phase \in {"returned", "raised"}
     /\ dispatch.name \in Registered
     /\ ~Collides(dispatch.arguments))
        => /\ dispatch.phase = "returned"
           /\ ~IsRaised(dispatch.out)

\* C13: in a step whose calls all return, none of them a completion signal,
\* a call that returns success=false is no fault: the step leaves status
\* Executing, returns continue, and the transcript ends with one tool
\* message per call, the failing call's message carrying its id and its
\* failure result.
FailedCalls == {i \in 1..Len(lastStep.calls) :
                    ~IsRaised(StepResults[i]) /\ ~StepResults[i].success}
AllReturned == \A i \in 1..Len(lastStep.calls) :
                    ~IsRaised(StepResults[i]) /\ Serialisable(StepResults[i])
MessageOf(i) == messages[Len(messages) - Len(lastStep.calls) + i]

LimitNames == <<"max_iterations_reached", "max_tokens_reached",
                "max_tool_calls_reached", "max_duration_reached">>
LimitReached(k) ==
    IF k = 1 THEN iteration >= budgets.max_iterations
    ELSE IF k = 2 THEN tokens_used >= budgets.max_tokens
    ELSE IF k = 3 THEN tool_calls_made >= budgets.max_tool_calls
    ELSE now >= budgets.max_duration_seconds
ShouldStopPolicy ==
    (pc = "while" /\ status \notin Terminal /\ lastStep'.op # "handler")
        => \/ /\ \E k \in 1..4 : LimitReached(k)
              /\ pc' = "returned"
              /\ status' = COMPLETED
              /\ \E k \in 1..4 :
                    /\ LimitReached(k)
                    /\ \A j \in 1..(k - 1) : ~LimitReached(j)
                    /\ result' = ReasonMap(LimitNames[k])
              /\ UNCHANGED <<iteration, tokens_used, tool_calls_made, error, messages>>
           \/ /\ \A k \in 1..4 : ~LimitReached(k)
              /\ pc' = "body"
              /\ UNCHANGED agentVars

C14_ShouldStopPolicy == [][ShouldStopPolicy]_vars

C14_Witness ==
    /\ pc = "returned"
    /\ lastStep.op = "should_stop"
    /\ result = ReasonMap("max_tokens_reached")
    /\ iteration < budgets.max_iterations
    /\ tool_calls_made >= budgets.max_tool_calls
    /\ now >= budgets.max_duration_seconds

\* C15: called on a Completed or Failed state, should_stop answers stop and
\* changes no field of the state, also when a budget is exhausted in that
\* state.
TerminalCheck ==
    (status \in Terminal /\ (pc = "while" \/ pc' = "checked"))
        => (pc' \in {"returned", "checked"} /\ UNCHANGED agentVars)

C15_TerminalCheckIsPure == [][TerminalCheck]_vars

C15_Witness ==
    /\ pc = "checked"
    /\ status = COMPLETED
    /\ result = DoneMap(1)
    /\ iteration >= budgets.max_iterations

\* C16: when the loop has been ended by the budget check, either run() was
\* called exactly max_iterations times and the result names the iteration
\* limit, or fewer steps ran because another limit was reached before; with
\* no other limit reached the first case is the only one.
OtherLimitReached == \E k \in 2..4 : LimitReached(k)

C16_RunsExactlyMaxIterations ==
    (pc = "returned" /\ lastStep.op = "should_stop")
        => /\ status = COMPLETED
           /\ \/ /\ result = ReasonMap("max_iterations_reached")
                 /\ runCalls = budgets.max_iterations
                 /\ iteration = budgets.max_iterations
              \/ /\ result # ReasonMap("max_iterations_reached")
                 /\ runCalls < budgets.max_iterations
                 /\ OtherLimitReached

C16_Witness ==
    /\ pc = "returned"
    /\ lastStep.op = "should_stop"
    /\ budgets.max_iterations = MaxIter
    /\ runCalls = MaxIter
    /\ ~OtherLimitReached
    /\ tool_calls_made > 0
    /\ result = ReasonMap("max_iterations_reached")

\* C17: the step in which the model call raises counts as an iteration and
\* leaves tokens_used, tool_calls_made and the transcript as they were; the
\* state is then Failed with the exception's description as error, the
\* iteration counter is the number of that step, and run() is not called
\* again.
ModelFault == lastStep.op = "run" /\ lastStep.fault = "model"
ModelFaultStep ==
    (pc = "body" /\ lastStep'.op = "run" /\ lastStep'.fault = "model")
        => /\ iteration' = iteration + 1
           /\ iteration' = runCalls'
           /\ error' = lastStep'.desc
           /\ UNCHANGED <<tokens_used, tool_calls_made, messages>>

C17_ModelFaultFreezes ==
    /\ [](ModelFault => /\ status = FAILED
                        /\ error = lastStep.desc
                        /\ iteration = runCalls
                        /\ pc \in {"returned", "while"})
    /\ [][ModelFaultStep]_vars

C17_Witness ==
    /\ ModelFault
    /\ pc = "returned"
    /\ error = "provider timeout"
    /\ iteration = 2
    /\ tokens_used > 0
    /\ tool_calls_made > 0
    /\ Len(messages) > 2

\* C18: a Completed state made by the budget check has a result that is
\* exactly {reason: r} with r one of the four limit names and no completed
\* key; a Completed state made by a step has a result whose completed key
\* is truthy. The two never coincide.
IsLimitName(r) == \E k \in 1..4 : r = LimitNames[k]

C18_BudgetResultDistinct ==
    status = COMPLETED =>
        \/ /\ lastStep.op = "should_stop"
           /\ IsLimitName(result.reason)
           /\ result = ReasonMap(result.reason)
           /\ ~GetCompleted(result)
        \/ /\ lastStep.op = "run"
           /\ result.kind = "map"
           /\ GetCompleted(result)
           /\ ~IsLimitName(result.reason)

C18_Witness ==
    /\ status = COMPLETED
    /\ lastStep.op = "run"
    /\ Len(lastStep.calls) = 2
    /\ result = DoneMap(2)
    /\ iteration >= budgets.max_iterations
    /\ pc = "returned"

\* C19: the transcript starts with the system and the user message and
\* every step of the program leaves the old transcript as a prefix of the
\* new one.
PrefixOf(a, b) == Len(a) <= Len(b) /\ \A i \in 1..Len(a) : a[i] = b[i]

C19_AppendOnly ==
    /\ [](Len(messages) >= 2 /\ messages[1] = SystemMsg /\ messages[2] = UserMsg)
    /\ [][PrefixOf(messages, messages')]_vars

C19_Witness ==
    /\ Len(messages) >= 6
    /\ messages[3].role = "assistant"
    /\ messages[5].role = "assistant"
    /\ pc = "returned"

\* C20: a step with tool calls c1..cn (distinct ids) that returns continue
\* appends exactly n+1 messages: the assistant message with c1..cn in
\* request order, then for i = 1..n the tool message with the id of ci and
\* the result of ci.
StepAppends ==
    (/\ pc = "body"
     /\ lastStep'.op = "run"
     /\ lastStep'.ret = "continue"
     /\ lastStep'.calls # <<>>
     /\ DistinctIds(lastStep'.calls))
        => LET tcs == lastStep'.calls
               old == Len(messages)
           IN  /\ Len(messages') = old + Len(tcs) + 1
               /\ PrefixOf(messages, messages')
               /\ messages'[old + 1] = AssistantCalls(tcs)
               /\ \A i \in 1..Len(tcs) :
                    messages'[old + 1 + i] =
                        Msg("tool", "result", <<>>, tcs[i].id,
                            execute(tcs[i].name, lastStep'.outs[i]))

C20_ToolMessagesInRequestOrder == [][StepAppends]_vars

C20_Witness ==
    /\ lastStep.op = "run"
    /\ lastStep.ret = "continue"
    /\ Len(lastStep.calls) = 2
    /\ DistinctIds(lastStep.calls)
    /\ StepResults[1] # StepResults[2]
    /\ Len(messages) = 5
    /\ messages[3] = AssistantCalls(lastStep.calls)
    /\ messages[4].tool_call_id = lastStep.calls[1].id
    /\ messages[5].tool_call_id = lastStep.calls[2].id

\* ---- C21 ----
\* the status a step leaves from: run assigns Executing in its preamble
\* before anything else can change the status, so a step of run leaves
\* from Executing whatever the status was when it was called
StatusLeft == IF pc = "body" THEN EXECUTING ELSE status

AllowedTransitions ==
    {<<PENDING, EXECUTING>>, <<EXECUTING, EXECUTING>>,
     <<EXECUTING, COMPLETED>>, <<EXECUTING, FAILED>>}

StatusStep ==
    \/ status' = status
    \/ <<StatusLeft, status'>> \in AllowedTransitions

\* C21: along every execution, for every budget configuration, the status
\* only moves Pending->Executing, Executing->Executing, Executing->Completed
\* or Executing->Failed; it never moves from Pending to a terminal status
C21_StatusTransitions == [][StatusStep]_vars

\* ---- C22 ----
AcquireDone(c) == inflight[c].pc = "done" /\ inflight[c].op = "acquire"
ReleaseDone(c) == inflight[c].pc = "done" /\ inflight[c].op = "release"
StopDone(c) == inflight[c].pc = "done" /\ inflight[c].op = "stop"

\* C22: an acquire for an id whose registered handle is running returns
\* that same handle, leaves the registry as it was and asks the provider
\* for nothing: the creation made by the first acquire stays the only one
C22_AcquireIdempotent ==
    \A c \in Callers :
        (AcquireDone(c) /\ inflight[c].reg0 # NoHandle /\ inflight[c].running0)
            => /\ ~inflight[c].raised
               /\ inflight[c].ret = inflight[c].reg0
               /\ _active_sandboxes[inflight[c].id] = inflight[c].reg0
               /\ inflight[c].made = 0
               /\ inflight[c].asked = {}

C22_Witness ==
    \E c \in Callers :
        /\ AcquireDone(c)
        /\ inflight[c].reg0 # NoHandle
        /\ inflight[c].running0
        /\ inflight[c].ret = inflight[c].reg0
        /\ Cardinality({h \in Handles : envs[h].state # "NONE"}) = 1

\* ---- C23 ----
\* C23: an acquire for a registered handle that is not running asks the
\* provider to start that handle and returns it, creating nothing and
\* leaving the registry as it was; an acquire for an unregistered id that
\* returns has created exactly one environment and registered it under id
C23_AcquireRestartsOrCreates ==
    \A c \in Callers :
        AcquireDone(c) =>
            LET k == inflight[c]
            IN  /\ (k.reg0 # NoHandle /\ ~k.running0)
                      => /\ k.asked = {"start"}
                         /\ k.made = 0
                         /\ _active_sandboxes[k.id] = k.reg0
                         /\ ~k.raised => k.ret = k.reg0
                /\ (k.reg0 = NoHandle /\ ~k.raised)
                      => /\ k.made = 1
                         /\ k.ret # NoHandle
                         /\ _active_sandboxes[k.id] = k.ret
                         /\ envs[k.ret].owner = k.id
                         /\ "create" \in k.asked

C23_Witness ==
    \E c \in Callers :
        /\ AcquireDone(c)
        /\ inflight[c].reg0 # NoHandle
        /\ ~inflight[c].running0
        /\ ~inflight[c].raised
        /\ inflight[c].ret = inflight[c].reg0
        /\ envs[inflight[c].ret].state = "STARTED"

\* ---- C24 ----
\* C24: a release that returns has not raised and leaves id out of the
\* registry; it asked for the deletion of the handle it found, and asked
\* for nothing when it found none; no handle in the registry has ever
\* been released, so an acquire after a release gives a new environment
C24_ReleaseIdempotent ==
    /\ \A c \in Callers :
          ReleaseDone(c) =>
              LET k == inflight[c]
              IN  /\ ~k.raised
                  /\ _active_sandboxes[k.id] = NoHandle
                  /\ k.reg0 # NoHandle => (k.asked = {"delete"} /\ k.sandbox = k.reg0)
                  /\ k.reg0 = NoHandle => (k.asked = {} /\ k.sandbox = NoHandle)
    /\ \A a \in AgentIds :
          _active_sandboxes[a] # NoHandle => ~envs[_active_sandboxes[a]].released
    /\ \A c \in Callers :
          (AcquireDone(c) /\ ~inflight[c].raised)
              => /\ inflight[c].ret = _active_sandboxes[inflight[c].id]
                 /\ ~envs[inflight[c].ret].released

C24_Witness ==
    \E c \in Callers, h \in Handles :
        /\ AcquireDone(c)
        /\ ~inflight[c].raised
        /\ inflight[c].reg0 = NoHandle
        /\ envs[h].owner = inflight[c].id
        /\ envs[h].released
        /\ envs[h].state # "DELETED"
        /\ inflight[c].ret # h

\* ---- C25 ----
\* C25: a stop that returns has not raised and leaves the registry as it
\* was; it asked the provider to stop the registered handle, which is not
\* deleted, and asked for nothing when the id was unknown
C25_StopKeepsRegistry ==
    \A c \in Callers :
        StopDone(c) =>
            LET k == inflight[c]
            IN  /\ ~k.raised
                /\ _active_sandboxes[k.id] = k.reg0
                /\ k.reg0 # NoHandle
                      => /\ k.asked = {"stop"}
                         /\ envs[k.reg0].state \in {"STARTED", "STOPPED"}
                /\ k.reg0 = NoHandle => k.asked = {}

C25_Witness ==
    \E c \in Callers :
        /\ StopDone(c)
        /\ inflight[c].reg0 # NoHandle
        /\ envs[inflight[c].reg0].state = "STOPPED"
        /\ _active_sandboxes[inflight[c].id] = inflight[c].reg0

\* ---- C26 ----
Tracked == {_active_sandboxes[a] : a \in AgentIds} \ {NoHandle}

\* C26: whenever no call is in progress, the environments created and not
\* deleted are exactly the handles of the registry
C26_RegistryIsLiveSet ==
    (\A c \in Callers : Idle(c))
        => {h \in Handles : Live(envs[h])} = Tracked

\* ---- C27 ----
\* a step of a call for one agent id leaves the registry entry and the
\* environments of every other id as they were
NoInterference ==
    \A c \in Callers :
        inflight'[c] # inflight[c] =>
            \A b \in AgentIds \ {inflight'[c].id} :
                /\ _active_sandboxes'[b] = _active_sandboxes[b]
                /\ \A h \in Handles : envs[h].owner = b => envs'[h] = envs[h]

\* a call that returns leaves its own id as it would when running alone:
\* acquire leaves the handle it returns registered and live, release
\* leaves the id unregistered
OutcomeAsAlone ==
    \A c \in Callers :
        (inflight[c].pc # "done" /\ inflight'[c].pc = "done") =>
            LET k == inflight'[c]
            IN  /\ (k.op = "acquire" /\ ~k.raised)
                      => /\ _active_sandboxes'[k.id] = k.ret
                         /\ Live(envs'[k.ret])
                         /\ envs'[k.ret].owner = k.id
                /\ k.op = "release" => _active_sandboxes'[k.id] = NoHandle

\* C27: acquire and release calls for distinct ids that interleave do not
\* interfere
C27_DistinctIdsDoNotInterfere == [][NoInterference /\ OutcomeAsAlone]_vars

C27_Witness ==
    /\ inflight[1].pc \in {"create", "clone", "register", "start"}
    /\ inflight[2].pc = "delete"
    /\ inflight[1].id # inflight[2].id
    /\ _active_sandboxes[inflight[1].id] # NoHandle \/ inflight[1].sandbox # NoHandle

\* ---- C28 ----
\* C28: a task acquires its sandbox at most once, before the loop and under
\* the id of the task; nothing is released while the loop runs; a task
\* that acquired a sandbox has released that same id exactly once when it
\* exits, however it exits
C28_AcquireOnceReleaseOnce ==
    /\ Len(job.acquires) <= 1
    /\ Len(job.releases) <= 1
    /\ job.pc \in {"loop", "post", "publish"}
          => /\ job.acquires = <<AcquireId(job.kind)>>
             /\ job.releases = <<>>
    /\ (job.pc = "exit" /\ job.acquired) => job.releases = job.acquires

C28_Witness ==
    /\ job.pc = "exit"
    /\ job.acquired
    /\ job.outcome = "raised"
    /\ job.final # NoFinal
    /\ job.releases = <<AcquireId(job.kind)>>

\* ---- C29 ----
\* C29: a review or coding task that marked its row as being processed
\* leaves it COMPLETED with its result set, or FAILED with a non-empty
\* error, when it exits
C29_RecordEndsTerminal ==
    (job.pc = "exit" /\ job.kind \in {"review", "coding"} /\ job.started)
        => \/ job.record.status = "COMPLETED" /\ job.record.result
           \/ /\ job.record.status = "FAILED"
              /\ job.record.error \notin {NONE, ""}

\* ---- C30 ----
\* a value that is not one of the members of the enumeration
OutsideEnum(k) == k \in {"cased", "invalid", "wrong"}

\* the step calls finish_review with a verdict or an overall_severity that
\* is outside its enumeration: the tool gives a failure without completed
\* flag, the status is Executing afterwards and the transcript gained the
\* assistant message and the tool message of the failure
FinishFailsClosed ==
    (/\ pc = "body"
     /\ dispatch'.phase # "idle"
     /\ dispatch' # dispatch \/ lastStep' # lastStep
     /\ ~Collides(dispatch'.arguments)
     /\ Binds("finish_review", dispatch'.arguments)
     /\ \/ OutsideEnum(dispatch'.arguments.verdict)
        \/ OutsideEnum(dispatch'.arguments.overall_severity))
        => /\ dispatch'.phase = "returned"
           /\ ~dispatch'.out.success
           /\ ~GetCompleted(dispatch'.out.data)
           /\ status' = EXECUTING
           /\ messages' = messages \o
                 <<AssistantCalls(<<FinishCall>>),
                   Msg("tool", "result", <<>>, 1, dispatch'.out)>>

\* C30: finish_review called with a verdict outside {APPROVE,
\* REQUEST_CHANGES, COMMENT} or an overall_severity outside {low, medium,
\* high, critical} returns success=false without completed flag; the step
\* leaves the status Executing and appends the failure to the transcript
C30_InvalidEnumFailsClosed == [][FinishFailsClosed]_vars

\* ---- C31 ----
\* the arguments summary and verdict, both valid, and nothing else
SummaryAndVerdict ==
    [NoArguments EXCEPT !.summary = "valid", !.verdict = "valid"]

\* C31: when the first step of a run is a call of finish_review with a
\* summary, a valid verdict and no overall_severity, the loop has ended
\* after that step with status Completed, iteration 1 and the result
\* {summary, verdict, overall_severity: "medium", completed: true}
C31_FinishReviewScenario ==
    (runCalls = 1 /\ lastStep.op = "run" /\ dispatch.arguments = SummaryAndVerdict
        /\ dispatch.phase # "idle")
        => /\ pc # "body"
           /\ status = COMPLETED
           /\ iteration = 1
           /\ error = NONE
           /\ result.kind = "map"
           /\ result.completed = "truthy"
           /\ result.fields = [summary |-> "ok", verdict |-> "APPROVE",
                               overall_severity |-> "medium"]

C31_Witness ==
    /\ runCalls = 1
    /\ dispatch.arguments = SummaryAndVerdict
    /\ dispatch.phase = "returned"
    /\ status = COMPLETED
    /\ result.fields.overall_severity = "medium"

\* ---- C32 ----
\* the registrations made under a name, and the tool of the last of them
RegisteredAs(name) == {i \in 1..Len(registrations) : registrations[i].name = name}
LastRegistered(name) ==
    IF RegisteredAs(name) = {} THEN 0
    ELSE registrations[CHOOSE i \in RegisteredAs(name) :
                          \A j \in RegisteredAs(name) : j <= i].tool

\* C32: after any sequence of registrations a name is looked up, and so
\* dispatched, to the tool registered last under it, and get_all_schemas
\* holds exactly one schema for each registered name
C32_LastRegistrationWins ==
    /\ \A name \in DefinitionNames : get_tool(name) = LastRegistered(name)
    /\ {get_all_schemas[i].name : i \in 1..Len(get_all_schemas)}
          = {registrations[i].name : i \in 1..Len(registrations)}
    /\ \A i, j \in 1..Len(get_all_schemas) :
          get_all_schemas[i].name = get_all_schemas[j].name => i = j
    /\ \A i \in 1..Len(get_all_schemas) :
          get_all_schemas[i].tool = LastRegistered(get_all_schemas[i].name)

C32_Witness ==
    /\ Len(registrations) = 3
    /\ registrations[1].name = registrations[3].name
    /\ registrations[1].how # registrations[3].how
    /\ registrations[2].name # registrations[1].name
    /\ get_tool(registrations[1].name) = 3
    /\ Len(get_all_schemas) = 2

\* ---- C33 ----
\* run is about to be called only out of the while condition, and then
\* the status is not terminal and no counted budget is reached; a run that
\* returns stop ends the loop
CheckedBeforeRun ==
    /\ (pc' = "body" /\ pc # "body")
          => /\ pc = "while"
             /\ status' \notin Terminal
             /\ iteration' < budgets.max_iterations
             /\ tokens_used' < budgets.max_tokens
             /\ tool_calls_made' < budgets.max_tool_calls
    /\ (pc = "body" /\ lastStep'.op = "run" /\ lastStep'.ret = "stop")
          => pc' = "returned"
    /\ (pc = "body" /\ pc' = "while")
          => (lastStep'.op = "run" /\ lastStep'.ret = "continue")

\* C33: execute evaluates should_stop before every call of run, so run
\* starts only with a non-terminal status and iteration, tokens_used and
\* tool_calls_made below their budgets; after run returns stop, should_stop
\* is not evaluated again
C33_ShouldStopBeforeEveryRun == [][CheckedBeforeRun]_vars

C33_Witness ==
    /\ pc = "body"
    /\ iteration = 1
    /\ status = EXECUTING
    /\ tokens_used > 0
    /\ tool_calls_made > 0

\* ---- C34 ----
\* C34: with no release, whenever no call is in progress each id has had
\* at most one environment created for it, every created environment is
\* in the registry, and two callers whose acquire for one id returned
\* hold the same handle
C34_OneEnvironmentPerId ==
    (\A c \in Callers : Idle(c))
        => /\ \A a \in AgentIds :
                Cardinality({h \in Handles : envs[h].owner = a}) <= 1
           /\ {h \in Handles : envs[h].state # "NONE"} = Tracked
           /\ \A c, d \in Callers :
                (/\ AcquireDone(c) /\ AcquireDone(d)
                 /\ inflight[c].id = inflight[d].id
                 /\ ~inflight[c].raised /\ ~inflight[d].raised)
                    => inflight[c].ret = inflight[d].ret

\* C35: when execute_batch has returned for a batch with distinct ids in
\* which one or several calls came back with a completion signal, the
\* result that run stores from the mapping is the payload of the first
\* such call in request order, whatever the order in which the tasks
\* finished.
SignallingTasks == {i \in 1..Len(tasks) : Signals(tasks[i].out)}

C35_FirstSignalInRequestOrder ==
    (batch.state = "returned" /\ DistinctIds(batch.calls) /\ SignallingTasks # {})
        => LET first == CHOOSE i \in SignallingTasks : \A j \in SignallingTasks : i <= j
           IN  _extract_final_result(gathered) = tasks[first].out.data

C35_Witness ==
    /\ batch.state = "returned"
    /\ DistinctIds(batch.calls)
    /\ Cardinality(SignallingTasks) >= 2
    /\ _extract_final_result(gathered) = DoneMap(1)
    /\ tasks[Len(tasks)].out.data = DoneMap(Len(tasks))

\* C36: a step whose answer carries no tool call dispatches nothing, leaves
\* tool_calls_made, result and error as they were and the status
\* Executing, appends exactly one assistant message with the content when
\* the content is not empty and nothing when it is empty, and returns
\* continue.
NoToolCallStep ==
    /\ runCalls' = runCalls + 1
    /\ lastStep'.op = "run"
    /\ lastStep'.fault = "none"
    /\ lastStep'.calls = <<>>

NoToolCallEffect ==
    NoToolCallStep =>
        /\ lastStep'.outs = <<>>
        /\ tool_calls_made' = tool_calls_made
        /\ result' = result
        /\ error' = error
        /\ status' = EXECUTING
        /\ lastStep'.ret = "continue"
        /\ pc' = "while"
        /\ messages' = IF lastStep'.content = "" THEN messages
                       ELSE Append(messages,
                                   Msg("assistant", lastStep'.content, <<>>, 0, NoResult))

C36_NoToolCallStep == [][NoToolCallEffect]_vars

C36_Witness ==
    /\ lastStep.op = "run"
    /\ lastStep.fault = "none"
    /\ lastStep.calls = <<>>
    /\ lastStep.content = "text"
    /\ runCalls = 2
    /\ Len(messages) = 3
    /\ messages[3].role = "assistant"
    /\ status = EXECUTING

\* C37: iteration, tokens_used and tool_calls_made never decrease; each
\* call of run() increases iteration by exactly 1, also when the step
\* fails; each step whose batch dispatch returned increases
\* tool_calls_made by exactly the number of calls of the batch, the
\* completing step and calls of unknown tools included, and a step without
\* a returned dispatch leaves it alone.
RunCalled == runCalls' = runCalls + 1
DispatchReturned ==
    /\ RunCalled
    /\ lastStep'.op = "run"
    /\ lastStep'.calls # <<>>
    /\ lastStep'.fault \in {"none", "transcript"}

CountersStep ==
    /\ iteration' >= iteration
    /\ tokens_used' >= tokens_used
    /\ tool_calls_made' >= tool_calls_made
    /\ RunCalled => iteration' = iteration + 1
    /\ ~RunCalled => iteration' = iteration
    /\ DispatchReturned => tool_calls_made' = tool_calls_made + Len(lastStep'.calls)
    /\ ~DispatchReturned => tool_calls_made' = tool_calls_made

C37_CountersMonotone == [][CountersStep]_vars

C37_Witness ==
    /\ lastStep.op = "run"
    /\ lastStep.ret = "stop"
    /\ status = COMPLETED
    /\ Len(lastStep.calls) = 2
    /\ lastStep.calls[1].name = "no_such_tool"
    /\ tool_calls_made = 2
    /\ iteration = 1

\* C38: the step that detects a completion signal leaves the transcript as
\* it was: neither the assistant message with the tool calls nor a tool
\* message of that batch, the siblings that are not completion tools
\* included, is appended.
CompletingStep ==
    /\ runCalls' = runCalls + 1
    /\ lastStep'.op = "run"
    /\ lastStep'.fault = "none"
    /\ lastStep'.ret = "stop"

C38_CompletingStepKeepsTranscript ==
    [][CompletingStep => (status' = COMPLETED /\ messages' = messages)]_vars

C38_Witness ==
    /\ lastStep.op = "run"
    /\ lastStep.fault = "none"
    /\ lastStep.ret = "stop"
    /\ status = COMPLETED
    /\ runCalls = 2
    /\ Len(lastStep.calls) = 2
    /\ lastStep.outs[1] = ToolResult(TRUE, PlainMap, NONE)
    /\ lastStep.outs[2] = ToolResult(TRUE, DoneMap(1), NONE)
    /\ Len(messages) = 3
    /\ messages[3].role = "assistant"
    /\ messages[3].tool_calls = <<>>

\* C39: a review or coding task publishes on GitHub (the final review, the
\* pull request) only when the final state is Completed with a completion
\* payload that carries the summary (review) or the branch_name (coding);
\* when the final state is Failed or is Completed with only a budget
\* reason, the task exits without having published and with its row
\* FAILED.
PublishedOnlyWhenComplete ==
    (job.kind \in {"review", "coding"} /\ job.posted)
        => (job.final.status = COMPLETED /\ job.final.result = "full")

NotCompletedByTool ==
    /\ job.final # NoFinal
    /\ \/ job.final.status = FAILED
       \/ job.final.status = COMPLETED /\ job.final.result = "reason"

C39_PublishOnlyCompleted ==
    /\ PublishedOnlyWhenComplete
    /\ (job.pc = "exit" /\ job.kind \in {"review", "coding"} /\ NotCompletedByTool)
            => (~job.posted /\ job.record.status = "FAILED")

====
